---- MODULE Spec2Model ----
(***************************************************************************)
(* Context Engine: the hash store (baseline add / review / status), the    *)
(* redactor and normalizer text transforms, and the bundle / expand        *)
(* commands, modelled from the Python sources.                             *)
(*                                                                         *)
(* Eight specifications share the module:                                  *)
(*   SpecStore     the baseline directory and the persisted hash store     *)
(*   SpecTracked   the hash store while baseline files are edited and deleted*)
(*   SpecRedact    redact_secrets / summarize_config applied to input texts*)
(*   SpecNormalize the normalizer transforms applied to input texts        *)
(*   SpecBundle    the context file under bundle (manual mode) and expand  *)
(*   SpecAssemble  one bundle run on every combination of sections         *)
(*   SpecCompress  compress_cmd over the baseline files, with the timeout  *)
(*                 of the external compression backend                     *)
(*   SpecWrapper   one LongcodezipWrapper called from two threads: the lazy*)
(*                 construction under the lock, the SIGALRM timeout        *)
(* Each leaves the variables of the others at their idle values.           *)
(* A str is a sequence of one-character strings.                           *)
(***************************************************************************)
EXTENDS Integers, Sequences, FiniteSets, TLC

VARIABLES
    \* ---- hash store (SpecStore)
    live,          \* project files: source path -> content id
    baseline_dir,  \* .context/baseline: file name -> content id or NoFile
    hashes_file,   \* the persisted store file: [kind, data]
    clock,         \* datetime.now(), as a logical clock
    outcome,       \* what the last command did and reported
    \* ---- text transforms (SpecRedact)
    text,          \* the input text
    applied,       \* the transforms applied to it so far
    redacted,      \* redact_secrets(text)
    redacted_twice,\* redact_secrets(redact_secrets(text))
    summary,       \* summarize_config(text)
    \* ---- bundle and expand (SpecBundle)
    context_file,  \* .context/context_for_ai.md: [exists, text]
    inputs,        \* the texts the section collector reads
    pending,       \* the entries expand appended since the last bundle
    report,        \* what the last bundle / expand did and reported
    \* ---- normalizer (SpecNormalize)
    source_text,   \* the text given to a normalizer transform
    normalized,    \* the transform applied to it and what it returned
    \* ---- compress (SpecCompress)
    backend,       \* the environment: is the backend installed, is there SIGALRM
    compress_dir,  \* .context/baseline as compress_cmd sees it: name -> entry
    job,           \* compress_cmd: its position, baseline_files left, reports
    call,          \* the compress call in flight, if any
    \* ---- the wrapper under concurrent callers (SpecWrapper)
    shared_wrapper,\* the wrapper object: _compressor, the holder of its lock
    callers,       \* thread -> where it is in compress and what it holds
    sigalrm_state  \* the process's SIGALRM handler and its pending alarm

storeVars == <<live, baseline_dir, hashes_file, clock, outcome>>
redactVars == <<text, applied, redacted, redacted_twice, summary>>
bundleVars == <<context_file, inputs, pending, report>>
normalizeVars == <<source_text, normalized>>
compressVars == <<backend, compress_dir, job, call>>
wrapperVars == <<shared_wrapper, callers, sigalrm_state>>
notStoreVars == <<redactVars, bundleVars, normalizeVars, compressVars, wrapperVars>>
notRedactVars == <<storeVars, bundleVars, normalizeVars, compressVars, wrapperVars>>
notBundleVars == <<storeVars, redactVars, normalizeVars, compressVars, wrapperVars>>
notNormalizeVars == <<storeVars, redactVars, bundleVars, compressVars, wrapperVars>>
notCompressVars == <<storeVars, redactVars, bundleVars, normalizeVars, wrapperVars>>
notWrapperVars == <<storeVars, redactVars, bundleVars, normalizeVars, compressVars>>
vars == <<storeVars, redactVars, bundleVars, normalizeVars, compressVars, wrapperVars>>

(***************************************************************************)
(* Bounds of the model.                                                    *)
(***************************************************************************)
NumContents == 2   \* distinct file contents a project file can take
MaxClock == 1      \* datetime.now() takes the values 0..MaxClock
MaxBatch == 2      \* longest argument list of one `baseline add`
MaxContext == 1    \* lines of context before the line under redaction
MaxEntries == 2    \* entries (### headings) in the context file before expand stops
MaxExpand == 2     \* longest argument list of one `expand`
MaxLines == 3      \* lines of a text given to the normalizer

\* The idle values of each specification's variables
StoreIdle ==
    /\ live = <<>>
    /\ baseline_dir = <<>>
    /\ hashes_file = <<>>
    /\ clock = 0
    /\ outcome = <<>>

RedactIdle ==
    /\ text = <<>>
    /\ applied = {}
    /\ redacted = <<>>
    /\ redacted_twice = <<>>
    /\ summary = <<>>

BundleIdle ==
    /\ context_file = <<>>
    /\ inputs = <<>>
    /\ pending = <<>>
    /\ report = <<>>


NormalizeIdle ==
    /\ source_text = <<>>
    /\ normalized = <<>>

CompressIdle ==
    /\ backend = <<>>
    /\ compress_dir = <<>>
    /\ job = <<>>
    /\ call = <<>>

WrapperIdle ==
    /\ shared_wrapper = <<>>
    /\ callers = <<>>
    /\ sigalrm_state = <<>>
(***************************************************************************)
(* HASH STORE                                                              *)
(***************************************************************************)
NoFile == 0
Contents == 1..NumContents

\* The project files `baseline add` is called on. click.Path(exists=True)
\* guarantees each exists. "big.md" is larger than the size limit, "x.exe"
\* has a disallowed extension, "../o.md" lies outside the project root.
Sources == {"a.md", "b.md", "big.md", "x.exe", "../o.md"}
Editable == {"a.md", "b.md"}

\* Path(file_path).name
FileName(s) == IF s = "../o.md" THEN "o.md" ELSE s

\* is_subpath(source, project_root)
is_subpath(s) == s # "../o.md"

\* source.suffix.lower() in allowed_exts
AllowedExt(s) == s # "x.exe"

\* default of config.get("max_file_size_kb", 1024)
max_file_size_kb == 1024

\* source.stat().st_size, in KB
StatSizeKB(s) == IF s = "big.md" THEN 2 * max_file_size_kb ELSE 1

Names == {FileName(s) : s \in Sources}

\* SHA-256 of the content, taken collision free on the contents of the model
calculate_file_hash(c) == 1000 + 37 * c

EmptyStore == [n \in {} |-> 0]

\* The store file on disk: missing, a JSON object (data), text that is not
\* JSON ("garbage": json.load raises JSONDecodeError), or bytes that are not
\* text in the file encoding ("binary": reading raises UnicodeDecodeError,
\* a ValueError that is neither JSONDecodeError nor IOError).
StoreFile(kind, data) == [kind |-> kind, data |-> data]

\* load_hashes: [raised, store]
load_hashes(hf) ==
    CASE hf.kind = "missing" -> [raised |-> "none", store |-> EmptyStore]
      [] hf.kind = "json"    -> [raised |-> "none", store |-> hf.data]
      [] hf.kind = "garbage" -> [raised |-> "none", store |-> EmptyStore]
      [] hf.kind = "binary"  -> [raised |-> "UnicodeDecodeError", store |-> EmptyStore]

\* save_hashes
save_hashes(hashes) == StoreFile("json", hashes)

\* check_staleness(file_path, stored_hashes); dir gives the file's content
check_staleness_missing_is_stale(n, stored_hashes, dir) ==
    IF n \notin DOMAIN stored_hashes
    THEN TRUE
    ELSE stored_hashes[n].hash # calculate_file_hash(dir[n])

check_staleness(n, stored_hashes, dir) ==
    IF n \notin DOMAIN stored_hashes
    THEN FALSE
    ELSE stored_hashes[n].hash # calculate_file_hash(dir[n])

\* update_hash forgetting every other entry
update_hash_alone(n, stored_hashes, dir, now) ==
    [k \in {n} |-> [hash |-> calculate_file_hash(dir[n]), updated |-> now]]

\* update_hash(file_path, stored_hashes)
update_hash(n, stored_hashes, dir, now) ==
    [k \in DOMAIN stored_hashes \cup {n} |->
        IF k = n
        THEN [hash |-> calculate_file_hash(dir[n]), updated |-> now]
        ELSE stored_hashes[k]]

\* The validation of one file in add's loop: the exception it raises
AddValidation(s) ==
    IF ~is_subpath(s) THEN "BadParameter"
    ELSE IF ~AllowedExt(s) THEN "BadParameter"
    ELSE IF StatSizeKB(s) * 1024 > max_file_size_kb * 1024 THEN "BadParameter"
    ELSE "none"

\* The loop of add over its files, from index i: the baseline directory,
\* the in-memory hashes, the names copied, and the exception that ended it.
RECURSIVE AddLoop(_, _, _, _, _)
AddLoop(files, i, dir, hashes, copied) ==
    IF i > Len(files)
    THEN [dir |-> dir, hashes |-> hashes, copied |-> copied, raised |-> "none"]
    ELSE IF AddValidation(files[i]) # "none"
    THEN [dir |-> dir, hashes |-> hashes, copied |-> copied,
          raised |-> AddValidation(files[i])]
    ELSE LET n == FileName(files[i])
             dir2 == [dir EXCEPT ![n] = live[files[i]]]   \* shutil.copy2
         IN AddLoop(files, i + 1, dir2,
                    update_hash(n, hashes, dir2, clock), copied \cup {n})

Outcome(cmd, status, stale, copied) ==
    [cmd |-> cmd, status |-> status, stale |-> stale, copied |-> copied]

\* `context baseline add FILES`
add(files) ==
    LET loaded == load_hashes(hashes_file)
        done == AddLoop(files, 1, baseline_dir, loaded.store, {})
    IN IF loaded.raised # "none"
       THEN /\ outcome' = Outcome("add", loaded.raised, {}, {})
            /\ UNCHANGED <<live, baseline_dir, hashes_file, clock, notStoreVars>>
       ELSE /\ baseline_dir' = done.dir
            /\ hashes_file' = IF done.raised = "none"
                              THEN save_hashes(done.hashes)
                              ELSE hashes_file
            /\ outcome' = Outcome("add", IF done.raised = "none" THEN "ok" ELSE done.raised,
                                  {}, done.copied)
            /\ UNCHANGED <<live, clock, notStoreVars>>

BaselineFiles == {n \in Names : baseline_dir[n] # NoFile}

\* The staleness scan shared by review and status
StaleScan(cmd) ==
    IF BaselineFiles = {}
    THEN outcome' = Outcome(cmd, "ok", {}, {})
    ELSE LET loaded == load_hashes(hashes_file)
         IN IF loaded.raised # "none"
            THEN outcome' = Outcome(cmd, loaded.raised, {}, {})
            ELSE outcome' = Outcome(cmd, "ok",
                     {n \in BaselineFiles : check_staleness(n, loaded.store, baseline_dir)},
                     {})

\* A review that records the digests it computed
review_recording ==
    /\ StaleScan("review")
    /\ hashes_file' = save_hashes([n \in BaselineFiles |->
            [hash |-> calculate_file_hash(baseline_dir[n]), updated |-> clock]])
    /\ UNCHANGED <<live, baseline_dir, clock, notStoreVars>>

\* `context baseline review`
review ==
    /\ StaleScan("review")
    /\ UNCHANGED <<live, baseline_dir, hashes_file, clock, notStoreVars>>

\* `context status`
status ==
    /\ StaleScan("status")
    /\ UNCHANGED <<live, baseline_dir, hashes_file, clock, notStoreVars>>

\* The environment: the user edits a project file
ModifyLive ==
    \E s \in Editable, c \in Contents :
        /\ live[s] # c
        /\ live' = [live EXCEPT ![s] = c]
        /\ outcome' = Outcome("env", "ok", {}, {})
        /\ UNCHANGED <<baseline_dir, hashes_file, clock, notStoreVars>>

\* The environment: the file at a baseline path is modified in place
ModifyBaselineCopy ==
    \E n \in BaselineFiles, c \in Contents :
        /\ baseline_dir[n] # c
        /\ baseline_dir' = [baseline_dir EXCEPT ![n] = c]
        /\ outcome' = Outcome("env", "ok", {}, {})
        /\ UNCHANGED <<live, hashes_file, clock, notStoreVars>>

\* The environment: a tracked file of the baseline directory is deleted
DeleteBaselineCopy ==
    \E n \in BaselineFiles \cap DOMAIN load_hashes(hashes_file).store :
        /\ baseline_dir' = [baseline_dir EXCEPT ![n] = NoFile]
        /\ outcome' = Outcome("env", "ok", {}, {})
        /\ UNCHANGED <<live, hashes_file, clock, notStoreVars>>

\* The environment: the store file is deleted or corrupted
DamageStore ==
    \E k \in {"missing", "garbage", "binary"} :
        /\ hashes_file.kind # k
        /\ hashes_file' = StoreFile(k, EmptyStore)
        /\ outcome' = Outcome("env", "ok", {}, {})
        /\ UNCHANGED <<live, baseline_dir, clock, notStoreVars>>

\* The environment: time passes
Tick ==
    /\ clock < MaxClock
    /\ clock' = clock + 1
    /\ outcome' = Outcome("env", "ok", {}, {})
    /\ UNCHANGED <<live, baseline_dir, hashes_file, notStoreVars>>

Batches == UNION {[1..k -> Sources] : k \in 1..MaxBatch}

AddCmd == \E files \in Batches : add(files)

StoreInit ==
    /\ RedactIdle
    /\ BundleIdle
    /\ NormalizeIdle
    /\ CompressIdle
    /\ WrapperIdle
    /\ live \in [Sources -> {1}]
    /\ baseline_dir = [n \in Names |-> NoFile]
    /\ hashes_file = StoreFile("missing", EmptyStore)
    /\ clock = 0
    /\ outcome = Outcome("init", "ok", {}, {})

StoreNext ==
    \/ AddCmd
    \/ review
    \/ status
    \/ ModifyLive
    \/ ModifyBaselineCopy
    \/ DamageStore
    \/ Tick

SpecStore == StoreInit /\ [][StoreNext]_vars

(***************************************************************************)
(* SpecTracked: the commands on the hash store while tracked files of the  *)
(* baseline directory are edited and deleted and the store file is         *)
(* damaged; the project files stay as they are                             *)
(***************************************************************************)
TrackedNext ==
    \/ AddCmd
    \/ review
    \/ status
    \/ ModifyBaselineCopy
    \/ DeleteBaselineCopy
    \/ DamageStore
    \/ Tick

SpecTracked == StoreInit /\ [][TrackedNext]_vars
(***************************************************************************)
(* TEXT: a str is a sequence of one-character strings.                     *)
(***************************************************************************)
LowerCase == {"a", "b", "c", "d", "e", "f", "g", "h", "i", "j", "k", "l", "m", "n", "o", "p", "q", "r", "s", "t", "u", "v", "w", "x", "y", "z"}
UpperCase == {"A", "B", "C", "D", "E", "F", "G", "H", "I", "J", "K", "L", "M", "N", "O", "P", "Q", "R", "S", "T", "U", "V", "W", "X", "Y", "Z"}
Digits == {"0", "1", "2", "3", "4", "5", "6", "7", "8", "9"}
Quotes == {"\"", "'"}

\* \s of the regular expressions and the characters str.strip() removes
Whitespace == {" ", "\t", "\n", "\r", "\f"}

\* \w: the characters between which \b finds no boundary
WordChars == LowerCase \cup UpperCase \cup Digits \cup {"_"}

LowerLetters == <<"a", "b", "c", "d", "e", "f", "g", "h", "i", "j", "k", "l", "m", "n", "o", "p", "q", "r", "s", "t", "u", "v", "w", "x", "y", "z">>
UpperLetters == <<"A", "B", "C", "D", "E", "F", "G", "H", "I", "J", "K", "L", "M", "N", "O", "P", "Q", "R", "S", "T", "U", "V", "W", "X", "Y", "Z">>

\* str.lower() on one character (re.IGNORECASE compares lowered characters)
Lower(c) ==
    IF c \in UpperCase
    THEN LowerLetters[CHOOSE k \in 1..26 : UpperLetters[k] = c]
    ELSE c

LowerStr(s) == [k \in 1..Len(s) |-> Lower(s[k])]

\* text[i - 1 : i - 1 + len(p)] == p (positions from 1)
StartsWithAt(t, i, p) ==
    /\ i + Len(p) - 1 <= Len(t)
    /\ \A k \in 1..Len(p) : t[i + k - 1] = p[k]

\* the same, ignoring case
StartsWithAtIgnoreCase(t, i, p) ==
    /\ i + Len(p) - 1 <= Len(t)
    /\ \A k \in 1..Len(p) : Lower(t[i + k - 1]) = Lower(p[k])

\* p in t
Contains(t, p) == \E i \in 1..(Len(t) - Len(p) + 1) : StartsWithAt(t, i, p)

\* F(v) with v evaluated once: LET x == v IN F(x)
Bind(v, F(_)) == CHOOSE r \in {F(x) : x \in {v}} : TRUE

\* the least element of a set of positions, or none if the set is empty
FirstOf(positions, none) ==
    IF positions = {} THEN none
    ELSE CHOOSE j \in positions : \A k \in positions : j <= k

\* the greatest element of a set of positions within 1..hi, or none if the
\* set is empty
LastOf(positions, hi, none) ==
    Bind(FirstOf({k \in 0..(hi - 1) : (hi - k) \in positions}, hi),
         LAMBDA d : IF d = hi THEN none ELSE hi - d)

\* the length of the longest run of characters of class at position i
RunLen(t, i, class) ==
    FirstOf({j \in i..Len(t) : t[j] \notin class}, Len(t) + 1) - i

\* the length of the longest run of characters outside class at position i
RunLenNot(t, i, class) ==
    FirstOf({j \in i..Len(t) : t[j] \in class}, Len(t) + 1) - i

\* t[i - 1 : j] of Python: the characters at positions i..j, empty if j < i
Slice(t, i, j) == IF j < i THEN <<>> ELSE SubSeq(t, i, j)

\* str.lstrip(), str.rstrip(), str.strip()
LStrip(t) == Slice(t, FirstOf({j \in 1..Len(t) : t[j] \notin Whitespace}, Len(t) + 1), Len(t))

RStrip(t) == Slice(t, 1, LastOf({j \in 1..Len(t) : t[j] \notin Whitespace}, Len(t), 0))

Strip(t) == Bind(RStrip(t), LAMBDA r : LStrip(r))

\* the position of the first c at or after position i, Len(t) + 1 if none
IndexOf(t, c, i) == FirstOf({j \in i..Len(t) : t[j] = c}, Len(t) + 1)

\* t.split(c): the sequence of the pieces between the occurrences of c
RECURSIVE SplitOn(_, _)
SplitOn(t, c) ==
    Bind(IndexOf(t, c, 1), LAMBDA k :
        IF k > Len(t)
        THEN <<t>>
        ELSE <<Slice(t, 1, k - 1)>> \o SplitOn(Slice(t, k + 1, Len(t)), c))

\* t.split('\n')
SplitLines(t) == SplitOn(t, "\n")

\* sep.join(parts)
RECURSIVE Join(_, _)
Join(parts, sep) ==
    IF parts = <<>> THEN <<>>
    ELSE IF Len(parts) = 1 THEN parts[1]
    ELSE parts[1] \o sep \o Join(Tail(parts), sep)

\* '\n'.join(lines)
JoinLines(lines) == Join(lines, <<"\n">>)


(***************************************************************************)
(* REDACTOR: redact_secrets                                                *)
(***************************************************************************)
REDACTED == <<"[", "R", "E", "D", "A", "C", "T", "E", "D", "]">>
REDACTED_KEY == <<"[", "R", "E", "D", "A", "C", "T", "E", "D", "_", "K", "E", "Y", "]">>
REDACTED_AWS == <<"[", "R", "E", "D", "A", "C", "T", "E", "D", "_", "A", "W", "S", "]">>
SkPrefix == <<"s", "k", "-">>
AkiaPrefix == <<"A", "K", "I", "A">>

\* [A-Za-z0-9\-_]
KeyChars == LowerCase \cup UpperCase \cup Digits \cup {"-", "_"}
\* [0-9A-Z]
AwsChars == Digits \cup UpperCase
\* [a-fA-F0-9]
HexChars == {"a", "b", "c", "d", "e", "f", "A", "B", "C", "D", "E", "F", "0", "1", "2", "3", "4", "5", "6", "7", "8", "9"}

MinSkChars == 20       \* {20,}
AwsKeyChars == 16      \* {16}
MinHexChars == 32      \* {32,}
MinEntropyLen == 20    \* len(token) < 20
EntropyTimes2 == 7     \* entropy >= 3.5

\* The match of (sk-[A-Za-z0-9\-_]{20,}) between the literal text `before`
\* and the literal text `after` at position i: its length, 0 if none. The
\* run is greedy, and no shorter run can be followed by `after` (a quote) or
\* by the lookahead (?=\s|$), so only the longest run is tried.
SkMatchLen(t, i, before, after, lookahead) ==
    IF ~StartsWithAt(t, i, before \o SkPrefix) THEN 0
    ELSE Bind(RunLen(t, i + Len(before) + Len(SkPrefix), KeyChars), LAMBDA r :
         Bind(i + Len(before) + Len(SkPrefix) + r, LAMBDA e :
            IF /\ r >= MinSkChars
               /\ StartsWithAt(t, e, after)
               /\ lookahead => (e > Len(t) \/ t[e] \in Whitespace)
            THEN Len(before) + Len(SkPrefix) + r + Len(after)
            ELSE 0))

\* (["']?)(AKIA[0-9A-Z]{16})(["']?) at position i: [len, q1, q3]
AwsMatch(t, i) ==
    LET q1 == IF i <= Len(t) /\ t[i] \in Quotes THEN 1 ELSE 0
        p == i + q1 + Len(AkiaPrefix)
        e == p + AwsKeyChars
        q3 == IF e <= Len(t) /\ t[e] \in Quotes THEN 1 ELSE 0
    IN IF /\ StartsWithAt(t, i + q1, AkiaPrefix)
          /\ e - 1 <= Len(t)
          /\ \A k \in p..(e - 1) : t[k] \in AwsChars
       THEN [len |-> q1 + Len(AkiaPrefix) + AwsKeyChars + q3, q1 |-> q1, q3 |-> q3]
       ELSE [len |-> 0, q1 |-> 0, q3 |-> 0]

\* keyword \s* sep \s* ["']? ([^"'\s]+) ["']? at position i, for one keyword
\* of the alternation: [len, kw, vstart, vlen] with len the length of the
\* match (0 if none), kw the length of group 1, vstart and vlen the position
\* and length of group 2. Every quantifier is greedy and none can give a
\* character back to what follows it.
NoKvMatch == [len |-> 0, kw |-> 0, vstart |-> 0, vlen |-> 0]

\* ["']? at position j: 1 if there is a quote to take, else 0
QuoteAt(t, j) == IF j <= Len(t) /\ t[j] \in Quotes THEN 1 ELSE 0

KvMatchFor(t, i, kw, ignorecase, seps) ==
    IF ~(IF ignorecase THEN StartsWithAtIgnoreCase(t, i, kw) ELSE StartsWithAt(t, i, kw))
    THEN NoKvMatch
    ELSE Bind(i + Len(kw) + RunLen(t, i + Len(kw), Whitespace), LAMBDA j2 :
         IF ~(j2 <= Len(t) /\ t[j2] \in seps) THEN NoKvMatch
         ELSE Bind(j2 + 1 + RunLen(t, j2 + 1, Whitespace), LAMBDA j4 :
              Bind(j4 + QuoteAt(t, j4), LAMBDA j5 :
              Bind(RunLenNot(t, j5, Quotes \cup Whitespace), LAMBDA v :
                 IF v < 1 THEN NoKvMatch
                 ELSE [len |-> j5 + v + QuoteAt(t, j5 + v) - i, kw |-> Len(kw),
                       vstart |-> j5, vlen |-> v]))))

\* The alternation (kw1|kw2|...): the match of the first keyword, in order,
\* that has one
RECURSIVE KvMatch(_, _, _, _, _)
KvMatch(t, i, kws, ignorecase, seps) ==
    IF kws = <<>> THEN NoKvMatch
    ELSE Bind(KvMatchFor(t, i, Head(kws), ignorecase, seps), LAMBDA m :
            IF m.len > 0 THEN m
            ELSE KvMatch(t, i, Tail(kws), ignorecase, seps))

PasswordKeys == <<<<"p", "a", "s", "s", "w", "o", "r", "d">>, <<"p", "a", "s", "s", "w", "d">>, <<"p", "w", "d">>, <<"p", "a", "s", "s">>>>
TokenKeys == <<<<"t", "o", "k", "e", "n">>, <<"j", "w", "t">>, <<"b", "e", "a", "r", "e", "r">>>>
EnvKeys == <<<<"A", "P", "I", "_", "K", "E", "Y">>, <<"S", "E", "C", "R", "E", "T">>, <<"T", "O", "K", "E", "N">>, <<"P", "A", "S", "S", "W", "O", "R", "D">>, <<"P", "A", "S", "S", "W", "D">>>>

\* c * log2(c) * 10^6, rounded, for c in 1..128 (an entropy is asked of no longer token)
CLog2C ==
    <<0, 2000000, 4754888, 8000000, 11609640, 15509775,
      19651484, 24000000, 28529325, 33219281, 38053748, 43019550,
      48105716, 53302969, 58603359, 64000000, 69486868, 75058650,
      80710623, 86438562, 92238666, 98107496, 104041925, 110039100,
      116096405, 122211433, 128381963, 134605938, 140881449, 147206718,
      153580086, 160000000, 166465006, 172973737, 179524906, 186117300,
      192749775, 199421246, 206130687, 212877124, 219659632, 226477332,
      233329384, 240214991, 247133389, 254083850, 261065676, 268078200,
      275120782, 282192809, 289293692, 296422865, 303579784, 310763925,
      317974784, 325211876, 332474731, 339762898, 347075940, 354413436,
      361774978, 369160171, 376568635, 384000000, 391453908, 398930012,
      406427976, 413947473, 421488188, 429049811, 436632045, 444234600,
      451857193, 459499549, 467161402, 474842491, 482542564, 490261373,
      497998679, 505754248, 513527850, 521319264, 529128273, 536954664,
      544798230, 552658769, 560536084, 568429982, 576340275, 584266779,
      592209312, 600167700, 608141769, 616131352, 624136283, 632156400,
      640191546, 648241565, 656306305, 664385619, 672479360, 680587385,
      688709554, 696845731, 704995779, 713159568, 721336968, 729527850,
      737732091, 745949568, 754180161, 762423751, 770680223, 778949462,
      787231356, 795525795, 803832672, 812151880, 820483314, 828826871,
      837182452, 845549955, 853929284, 862320342, 870723036, 879137270,
      887562955, 896000000>>

\* s.count(c)
CountChar(s, c) == Cardinality({k \in 1..Len(s) : s[k] = c})

RECURSIVE SumCLog2C(_, _)
SumCLog2C(s, chars) ==
    IF chars = {} THEN 0
    ELSE LET c == CHOOSE x \in chars : TRUE
         IN CLog2C[CountChar(s, c)] + SumCLog2C(s, chars \ {c})

\* _shannon_entropy(s) >= 3.5, that is
\* log2(n) - (1/n) * sum c*log2(c) >= 7/2 with n = len(s), c the counts
EntropyAtLeastThreshold(s) ==
    /\ s # <<>>
    /\ 2 * (CLog2C[Len(s)] - SumCLog2C(s, {s[k] : k \in 1..Len(s)}))
         >= EntropyTimes2 * Len(s) * 1000000

\* str.strip('"\'')
StripQuotes(t) ==
    Slice(t, FirstOf({j \in 1..Len(t) : t[j] \notin Quotes}, Len(t) + 1),
             LastOf({j \in 1..Len(t) : t[j] \notin Quotes}, Len(t), 0))

\* is_high_entropy_token
is_high_entropy_token(token) ==
    Bind(StripQuotes(Strip(token)), LAMBDA tok :
        IF Len(tok) < MinEntropyLen THEN FALSE ELSE EntropyAtLeastThreshold(tok))

\* _mask_high_entropy
mask_high_entropy(token) ==
    IF "_" \in {token[k] : k \in 2..(Len(token) - 1)} /\ ~StartsWithAt(token, 1, SkPrefix)
    THEN token
    ELSE IF is_high_entropy_token(token) THEN REDACTED ELSE token

\* \b[a-fA-F0-9]{32,}\b at position i: the length of the match, 0 if none
HexMatchLen(t, i) ==
    IF ~(/\ i <= Len(t)
         /\ t[i] \in HexChars
         /\ (i = 1 \/ t[i - 1] \notin WordChars))
    THEN 0
    ELSE Bind(RunLen(t, i, HexChars), LAMBDA r :
            IF /\ r >= MinHexChars
               /\ (i + r > Len(t) \/ t[i + r] \notin WordChars)
            THEN r
            ELSE 0)

\* The substitutions of redact_secrets, in the order of the source
Rules == <<"sk_eq_dq", "sk_eq_sq", "sk_eq", "sk_dq", "aws", "password", "token", "env", "hex">>

\* The length of the match of a rule's pattern at position i, 0 if none
MatchLen(rule, t, i) ==
    CASE rule = "sk_eq_dq" -> SkMatchLen(t, i, <<"=", "\"">>, <<"\"">>, FALSE)
      [] rule = "sk_eq_sq" -> SkMatchLen(t, i, <<"=", "'">>, <<"'">>, FALSE)
      [] rule = "sk_eq"    -> SkMatchLen(t, i, <<"=">>, <<>>, TRUE)
      [] rule = "sk_dq"    -> SkMatchLen(t, i, <<"\"">>, <<"\"">>, FALSE)
      [] rule = "aws"      -> AwsMatch(t, i).len
      [] rule = "password" -> KvMatch(t, i, PasswordKeys, TRUE, {"=", ":"}).len
      [] rule = "token"    -> KvMatch(t, i, TokenKeys, TRUE, {"=", ":"}).len
      [] rule = "env"      -> KvMatch(t, i, EnvKeys, FALSE, {"="}).len
      [] rule = "hex"      -> HexMatchLen(t, i)

\* What the match of length m at position i is replaced by
Replacement(rule, t, i, m) ==
    CASE rule = "sk_eq_dq" -> <<"=", "\"">> \o REDACTED_KEY \o <<"\"">>
      [] rule = "sk_eq_sq" -> <<"=", "'">> \o REDACTED_KEY \o <<"'">>
      [] rule = "sk_eq"    -> <<"=">> \o REDACTED_KEY
      [] rule = "sk_dq"    -> <<"\"">> \o REDACTED_KEY \o <<"\"">>
      [] rule = "aws"      ->
            Bind(AwsMatch(t, i), LAMBDA a :
                Slice(t, i, i + a.q1 - 1) \o REDACTED_AWS
                    \o Slice(t, i + m - a.q3, i + m - 1))
      [] rule = "password" ->
            Slice(t, i, i + KvMatch(t, i, PasswordKeys, TRUE, {"=", ":"}).kw - 1)
                 \o <<"=">> \o REDACTED
      [] rule = "token"    ->
            Slice(t, i, i + KvMatch(t, i, TokenKeys, TRUE, {"=", ":"}).kw - 1)
                 \o <<"=">> \o REDACTED
      [] rule = "env"      ->
            Slice(t, i, i + KvMatch(t, i, EnvKeys, FALSE, {"="}).kw - 1)
                 \o <<"=">> \o REDACTED
      [] rule = "hex"      -> mask_high_entropy(Slice(t, i, i + m - 1))

\* re.sub(pattern, repl, t) from position i on: leftmost matches, not
\* overlapping, each replaced; no pattern matches the empty string
RECURSIVE SubFrom(_, _, _)
SubFrom(rule, t, i) ==
    Bind(FirstOf({k \in i..Len(t) : MatchLen(rule, t, k) > 0}, Len(t) + 1), LAMBDA j :
        IF j > Len(t)
        THEN Slice(t, i, Len(t))
        ELSE Bind(MatchLen(rule, t, j), LAMBDA m :
                Slice(t, i, j - 1) \o Replacement(rule, t, j, m)
                    \o SubFrom(rule, t, j + m)))

Sub(rule, t) == SubFrom(rule, t, 1)

\* The substitutions before the environment-variable step
RedactSpecific(t) ==
    Sub("token", Sub("password", Sub("aws",
        Sub("sk_dq", Sub("sk_eq", Sub("sk_eq_sq", Sub("sk_eq_dq", t)))))))

\* if '[REDACTED_KEY]' not in text: the environment-variable substitution
RedactEnv(t) == IF ~Contains(t, REDACTED_KEY) THEN Sub("env", t) ELSE t

\* redact_secrets
redact_secrets(t) == Sub("hex", RedactEnv(RedactSpecific(t)))

(***************************************************************************)
(* NORMALIZER: summarize_config                                            *)
(***************************************************************************)
CONFIGURED == <<":", " ", "[", "c", "o", "n", "f", "i", "g", "u", "r", "e", "d", "]">>

\* what summarize_config appends to summary for one line: a sequence of no
\* line or one line
SummarizeLine(line) ==
    Bind(Strip(line), LAMBDA stripped :
        IF stripped = <<>> \/ Head(stripped) = "#" THEN <<>>
        ELSE IF \E k \in 1..Len(stripped) : stripped[k] \in {"{", "}", "[", "]"}
        THEN <<line>>
        ELSE IF \E k \in 1..Len(stripped) : stripped[k] \in {"=", ":"}
        THEN <<Strip(SplitOn(stripped,
                        IF "=" \in {stripped[k] : k \in 1..Len(stripped)}
                        THEN "=" ELSE ":")[1]) \o CONFIGURED>>
        ELSE <<>>)

RECURSIVE SummarizeLines(_)
SummarizeLines(lines) ==
    IF lines = <<>> THEN <<>>
    ELSE SummarizeLine(Head(lines)) \o SummarizeLines(Tail(lines))

\* summarize_config
summarize_config(config_text) ==
    JoinLines(SummarizeLines(SplitLines(redact_secrets(config_text))))

\* compress_whitespace: the loop over the right-trimmed lines
RECURSIVE CompressLoop(_, _)
CompressLoop(lines, comp) ==
    IF lines = <<>> THEN comp
    ELSE LET l == Head(lines)
         IN IF Strip(l) = <<>>
            THEN IF comp # <<>> /\ comp[Len(comp)] = <<>>
                 THEN CompressLoop(Tail(lines), comp)
                 ELSE CompressLoop(Tail(lines), Append(comp, <<>>))
            ELSE CompressLoop(Tail(lines), Append(comp, l))

\* compress_whitespace without l.rstrip(): the loop run over the lines as
\* they are
compress_whitespace_untrimmed(t) == JoinLines(CompressLoop(SplitLines(t), <<>>))

\* compress_whitespace
compress_whitespace(t) ==
    Bind(SplitLines(t), LAMBDA lines :
        JoinLines(CompressLoop([k \in 1..Len(lines) |-> RStrip(lines[k])], <<>>)))

\* deduplicate_content: the loop over the lines
RECURSIVE DedupLoop(_, _, _)
DedupLoop(lines, seen, result) ==
    IF lines = <<>> THEN result
    ELSE Bind(Strip(Head(lines)), LAMBDA stripped :
            IF stripped # <<>> /\ stripped \notin seen
            THEN DedupLoop(Tail(lines), seen \cup {stripped}, Append(result, Head(lines)))
            ELSE IF stripped = <<>>
            THEN IF result # <<>> /\ Strip(result[Len(result)]) = <<>>
                 THEN DedupLoop(Tail(lines), seen, result)
                 ELSE DedupLoop(Tail(lines), seen, Append(result, <<>>))
            ELSE DedupLoop(Tail(lines), seen, result))

\* deduplicate_content with the last occurrence of a line kept instead of
\* the first: the loop run over the lines from the last to the first
deduplicate_content_keeping_last(content) ==
    Bind(SplitLines(content), LAMBDA ls :
    Bind(DedupLoop([k \in 1..Len(ls) |-> ls[Len(ls) + 1 - k]], {}, <<>>), LAMBDA r :
        JoinLines([k \in 1..Len(r) |-> r[Len(r) + 1 - k]])))

\* deduplicate_content
deduplicate_content(content) == JoinLines(DedupLoop(SplitLines(content), {}, <<>>))

NO_DOCSTRINGS == <<"(", "n", "o", " ", "d", "o", "c", "s", "t", "r", "i", "n", "g", "s", ")">>
NO_API_DOCS == <<"(", "n", "o", " ", "A", "P", "I", " ", "d", "o", "c", "s", ")">>
TripleDouble == <<"\"", "\"", "\"">>
TripleSingle == <<"'", "'", "'">>
JsDocOpen == <<"/", "*", "*">>
JsDocClose == <<"*", "/">>

\* A block that opens with `open` at position i and runs to the first
\* `close` that starts after it: its length, 0 if there is none. This is
\* """[\s\S]*?""" and '''[\s\S]*?''' (lazy), and the JSDoc pattern
\* /\*\*[^*]*\*+(?:[^/*][^*]*\*+)*/, which ends at the first */ whose star
\* is not one of the two opening stars.
BlockMatchLen(t, i, open, close) ==
    IF ~StartsWithAt(t, i, open) THEN 0
    ELSE Bind(FirstOf({k \in (i + Len(open))..Len(t) : StartsWithAt(t, k, close)},
                      Len(t) + 1),
              LAMBDA j : IF j <= Len(t) THEN j + Len(close) - i ELSE 0)

\* The length of the docstring block at position i, 0 if none
DocMatchLen(language, t, i) ==
    IF language \in {"python", "py"}
    THEN Bind(BlockMatchLen(t, i, TripleDouble, TripleDouble), LAMBDA m :
            IF m > 0 THEN m ELSE BlockMatchLen(t, i, TripleSingle, TripleSingle))
    ELSE BlockMatchLen(t, i, JsDocOpen, JsDocClose)

\* re.findall: the blocks, leftmost first, not overlapping
RECURSIVE FindBlocks(_, _, _)
FindBlocks(language, t, i) ==
    Bind(FirstOf({k \in i..Len(t) : DocMatchLen(language, t, k) > 0}, Len(t) + 1), LAMBDA j :
        IF j > Len(t) THEN <<>>
        ELSE Bind(DocMatchLen(language, t, j), LAMBDA m :
                <<Slice(t, j, j + m - 1)>> \o FindBlocks(language, t, j + m)))

\* [b.strip() for b in blocks if b.strip()]
RECURSIVE StrippedNonBlank(_)
StrippedNonBlank(blocks) ==
    IF blocks = <<>> THEN <<>>
    ELSE Bind(Strip(Head(blocks)), LAMBDA b :
            IF b = <<>> THEN StrippedNonBlank(Tail(blocks))
            ELSE <<b>> \o StrippedNonBlank(Tail(blocks)))

\* extract_api_docstrings
extract_api_docstrings(code, language) ==
    Bind(Join(StrippedNonBlank(FindBlocks(language, code, 1)), <<"\n", "\n">>), LAMBDA joined :
        IF language \in {"python", "py"}
        THEN IF joined # <<>> THEN joined ELSE NO_DOCSTRINGS
        ELSE IF language \in {"javascript", "js", "typescript", "ts"}
        THEN IF joined # <<>> THEN joined ELSE NO_API_DOCS
        ELSE NO_API_DOCS)

\* compress_code
compress_code(code, language) ==
    compress_whitespace(extract_api_docstrings(code, language))

\* docstring_char when no docstring is open
NoQuote == <<>>

\* strip_comments, Python branch: one pass of the loop over the lines.  A
\* line holding a triple quote opens a docstring when none is open and
\* closes the open one when it holds the opening style; it is kept as it is.
RECURSIVE StripLoop(_, _, _, _)
StripLoop(lines, in_docstring, docstring_char, result) ==
    IF lines = <<>> THEN result
    ELSE Bind(Head(lines), LAMBDA line :
        IF Contains(line, TripleDouble) \/ Contains(line, TripleSingle)
        THEN IF ~in_docstring
             THEN StripLoop(Tail(lines), TRUE,
                            IF Contains(line, TripleDouble) THEN TripleDouble ELSE TripleSingle,
                            Append(result, line))
             ELSE IF Contains(line, docstring_char)
             THEN StripLoop(Tail(lines), FALSE, NoQuote, Append(result, line))
             ELSE StripLoop(Tail(lines), in_docstring, docstring_char, Append(result, line))
        ELSE IF in_docstring
        THEN StripLoop(Tail(lines), in_docstring, docstring_char, Append(result, line))
        ELSE IF Contains(line, <<"#">>)
        THEN Bind(RStrip(SplitOn(line, "#")[1]), LAMBDA code_part :
                StripLoop(Tail(lines), in_docstring, docstring_char,
                          IF code_part # <<>> THEN Append(result, code_part) ELSE result))
        ELSE StripLoop(Tail(lines), in_docstring, docstring_char, Append(result, line)))

\* strip_comments: the Python branch joins the kept lines; the C-like branch
\* returns the non-blank JSDoc blocks joined by newlines (the code it cleans
\* of // and /* */ comments is not part of what it returns); any other
\* language gets the code back
strip_comments(code, language) ==
    IF language \in {"python", "py"}
    THEN JoinLines(StripLoop(SplitLines(code), FALSE, NoQuote, <<>>))
    ELSE IF language \in {"javascript", "js", "typescript", "ts", "java", "c", "cpp"}
    THEN JoinLines(SelectSeq(FindBlocks("javascript", code, 1), LAMBDA b : Strip(b) # <<>>))
    ELSE code

(***************************************************************************)
(* SpecRedact: redact_secrets and summarize_config applied to input texts  *)
(***************************************************************************)
SkKey == <<"s", "k", "-", "a", "a", "a", "a", "a", "a", "a", "a", "a", "a", "a", "a", "a", "a", "a", "a", "a", "a", "a", "a">>
AwsKey == <<"A", "K", "I", "A", "A", "B", "C", "D", "E", "F", "G", "H", "I", "J", "0", "1", "2", "3", "4", "5">>
HexHigh == <<"0", "1", "2", "3", "4", "5", "6", "7", "8", "9", "a", "b", "c", "d", "e", "f", "0", "1", "2", "3", "4", "5", "6", "7", "8", "9", "a", "b", "c", "d", "e", "f">>
Hunter == <<"h", "u", "n", "t", "e", "r", "2">>
Address == <<"1", "0", ".", "0", ".", "0", ".", "1">>

\* The line under redaction: key, separator, value (bare or quoted), tail
InputKeys == {<<"A", "P", "I", "_", "K", "E", "Y">>, <<"S", "E", "C", "R", "E", "T">>, <<"p", "a", "s", "s", "w", "o", "r", "d">>, <<"t", "o", "k", "e", "n">>, <<"h", "o", "s", "t">>, <<>>}
InputSeps == {<<"=">>, <<":", " ">>, <<" ", "=", " ">>}
InputValues == {SkKey, AwsKey, HexHigh, Hunter, Address}
InputQuotes == {<<>>, <<"\"">>, <<"'">>}
InputTails == {<<>>, <<",">>, <<" ", "{">>}

InputLines ==
    {k \o s \o q \o v \o q \o e :
        k \in InputKeys, s \in InputSeps, q \in InputQuotes,
        v \in InputValues, e \in InputTails}

\* Lines of the same text before it
ContextLines == {<<"K", "=", "\"">> \o SkKey \o <<"\"">>, <<"d", "e", "b", "u", "g", ":", " ", "t", "r", "u", "e">>}

Contexts == UNION {[1..n -> ContextLines] : n \in 0..MaxContext}

InputTexts == {JoinLines(c \o <<l>>) : c \in Contexts, l \in InputLines}

RedactInit ==
    /\ StoreIdle
    /\ BundleIdle
    /\ NormalizeIdle
    /\ CompressIdle
    /\ WrapperIdle
    /\ text \in InputTexts
    /\ applied = {}
    /\ redacted = <<>>
    /\ redacted_twice = <<>>
    /\ summary = <<>>

\* text' = redact_secrets(text)
Redact ==
    /\ "redact" \notin applied
    /\ redacted' = redact_secrets(text)
    /\ applied' = applied \cup {"redact"}
    /\ UNCHANGED <<text, redacted_twice, summary, notRedactVars>>

\* the redactor applied to its own output
RedactAgain ==
    /\ "redact" \in applied
    /\ "again" \notin applied
    /\ redacted_twice' = redact_secrets(redacted)
    /\ applied' = applied \cup {"again"}
    /\ UNCHANGED <<text, redacted, summary, notRedactVars>>

\* summary = summarize_config(text)
Summarize ==
    /\ "summarize" \notin applied
    /\ summary' = summarize_config(text)
    /\ applied' = applied \cup {"summarize"}
    /\ UNCHANGED <<text, redacted, redacted_twice, notRedactVars>>

RedactNext ==
    \/ Redact
    \/ RedactAgain
    \/ Summarize

SpecRedact == RedactInit /\ [][RedactNext]_vars

(***************************************************************************)
(* SpecNormalize: the normalizer transforms applied to input texts         *)
(***************************************************************************)
\* Lines of prose: blank, indented, with trailing whitespace, repeated
PlainLines == {<<>>, <<" ", " ">>, <<"x">>, <<" ", " ", "x">>, <<"x", " ", " ">>, <<"y">>}

\* Lines of a configuration file
ConfigLines ==
    {<<"#", " ", "n", "o", "t", "e">>, <<"{">>, <<"x", " ", "=", " ", "1">>, <<"p", "o", "r", "t", ":", " ", "5", "4", "3", "2">>, <<"u", "r", "l", ":", " ", "h", "?", "a", "=", "b">>, <<"p", "a", "s", "s", "w", "o", "r", "d", ":", " ", "h", "u", "n", "t", "e", "r", "2">>}

\* Lines of a source file: docstrings, doc comments and code
CodeLines == {<<>>, <<"\"", "\"", "\"", "d", "o", "c", "\"", "\"", "\"">>, <<"/", "*", "*", " ", "d", "o", "c", " ", "*", "/">>, <<"x", " ", "=", " ", "1">>}

\* Lines of a source file with comments
CommentLines == {<<"\"", "\"", "\"", "d", "o", "c", "\"", "\"", "\"">>, <<"\"", "\"", "\"">>, <<"x", " ", "=", " ", "1", " ", "#", " ", "c">>, <<"/", "*", "*", " ", "d", "o", "c", " ", "*", "/">>, <<"x", " ", "/", "/", " ", "c">>}

TextsOf(lines) == {JoinLines(t) : t \in UNION {[1..n -> lines] : n \in 1..MaxLines}}

NormalizeTexts == TextsOf(PlainLines) \cup TextsOf(ConfigLines) \cup TextsOf(CodeLines)
        \cup TextsOf(CommentLines)

\* The languages expand passes to compress_code
Languages == {"python", "javascript"}

\* What a transform returned: its name, the language it was given, its
\* output, and its output when applied to that output once more
Returned(op, language, out, again) ==
    [op |-> op, language |-> language, out |-> out, again |-> again]

NormalizeInit ==
    /\ StoreIdle
    /\ RedactIdle
    /\ BundleIdle
    /\ CompressIdle
    /\ WrapperIdle
    /\ source_text \in NormalizeTexts
    /\ normalized = Returned("none", "", <<>>, <<>>)

\* summarize_config(source_text)
SummarizeConfig ==
    /\ normalized.op = "none"
    /\ normalized' = Returned("summarize_config", "", summarize_config(source_text), <<>>)
    /\ UNCHANGED <<source_text, notNormalizeVars>>

\* deduplicate_content(source_text)
DeduplicateContent ==
    /\ normalized.op = "none"
    /\ normalized' = Returned("deduplicate_content", "", deduplicate_content(source_text), <<>>)
    /\ UNCHANGED <<source_text, notNormalizeVars>>

\* compress_whitespace(source_text)
CompressWhitespace ==
    /\ normalized.op = "none"
    /\ normalized' = Returned("compress_whitespace", "", compress_whitespace(source_text), <<>>)
    /\ UNCHANGED <<source_text, notNormalizeVars>>

\* compress_whitespace applied to its own output
CompressWhitespaceAgain ==
    /\ normalized.op = "compress_whitespace"
    /\ normalized' = Returned("compress_whitespace_twice", "", normalized.out,
                              compress_whitespace(normalized.out))
    /\ UNCHANGED <<source_text, notNormalizeVars>>

\* compress_code(source_text, language)
CompressCode ==
    /\ normalized.op = "none"
    /\ \E language \in Languages :
        normalized' = Returned("compress_code", language, compress_code(source_text, language), <<>>)
    /\ UNCHANGED <<source_text, notNormalizeVars>>

\* strip_comments(source_text, language)
StripComments ==
    /\ normalized.op = "none"
    /\ \E language \in Languages :
        normalized' = Returned("strip_comments", language, strip_comments(source_text, language), <<>>)
    /\ UNCHANGED <<source_text, notNormalizeVars>>

NormalizeNext ==
    \/ SummarizeConfig
    \/ DeduplicateContent
    \/ CompressWhitespace
    \/ CompressWhitespaceAgain
    \/ CompressCode
    \/ StripComments

SpecNormalize == NormalizeInit /\ [][NormalizeNext]_vars
(***************************************************************************)
(* BUNDLE AND EXPAND                                                       *)
(***************************************************************************)
EXPANDED_MARKER == <<"\n", "#", "#", " ", "E", "x", "p", "a", "n", "d", "e", "d", " ", "F", "i", "l", "e", "s", "\n">>
NONE == <<"N", "o", "n", "e">>
NO_SUMMARY == <<"(", "n", "o", " ", "s", "u", "m", "m", "a", "r", "y", ")">>

\* config.context_file on disk
File(t) == [exists |-> TRUE, text |-> t]
NoContextFile == [exists |-> FALSE, text |-> <<>>]

\* str.find: the position of the first occurrence of p in t, 0 if none
Find(t, p) == FirstOf({k \in 1..(Len(t) - Len(p) + 1) : StartsWithAt(t, k, p)}, 0)

\* count_tokens. The tiktoken encoding is not part of the sources: a token
\* is taken to be a run of characters that are not whitespace.
count_tokens(t) ==
    Cardinality({k \in 1..Len(t) :
        t[k] \notin Whitespace /\ (k = 1 \/ t[k - 1] \in Whitespace)})

\* config.get("max_tokens", 100000): the default, and the budgets a project
\* configures in the model, which a small document exceeds
default_max_tokens == 100000
SmallBudget == 40
Budgets == {SmallBudget}

\* config.openrouter_api_key: no key is configured, so that every run takes
\* the manual branch (the OpenRouter client is not part of the sources)
openrouter_api_key == FALSE

\* The texts of the baseline files mapped to sections, of the session notes
\* and of the cross-repo notes; <<>> is also what a missing file reads as
ArchTexts == {<<>>, <<"L", "a", "y", "e", "r", "e", "d", " ", "d", "e", "s", "i", "g", "n", "\n", "\n", "\n", "L", "a", "y", "e", "r", "e", "d", " ", "d", "e", "s", "i", "g", "n", " ", " ", "\n", "C", "L", "I", " ", "o", "v", "e", "r", " ", "c", "o", "r", "e">>}
ApiTexts == {<<>>, <<"G", "E", "T", " ", "/", "f", "i", "l", "e", "s">>}
ConfTexts == {<<>>, <<"A", "P", "I", "_", "K", "E", "Y", "=", "h", "u", "n", "t", "e", "r", "2">>}
SchemaTexts == {<<>>, <<"u", "s", "e", "r", "s", "(", "i", "d", ")">>}
SessionTexts == {<<>>, <<"f", "i", "x", "e", "d", " ", "t", "h", "e", " ", "p", "a", "r", "s", "e", "r">>}
CrossTexts == {<<" ", "\n">>, <<"s", "e", "e", " ", "r", "e", "p", "o", "-", "b">>}

\* Session notes that quote a heading of the document
MarkedSession == <<"x", "\n", "#", "#", " ", "E", "x", "p", "a", "n", "d", "e", "d", " ", "F", "i", "l", "e", "s", "\n", "y">>

\* _collect_structured_baseline, _read_session, _read_cross_repo
_collect_structured_baseline == <<inputs.arch, inputs.apis, inputs.conf, inputs.schema>>
_read_session == inputs.session
_read_cross_repo == inputs.cross

\* _read_expanded_section
_read_expanded_section(cf) ==
    IF ~cf.exists THEN <<>>
    ELSE Bind(Find(cf.text, EXPANDED_MARKER), LAMBDA p :
            IF p > 0
            THEN Strip(Slice(cf.text, p + Len(EXPANDED_MARKER), Len(cf.text)))
            ELSE <<>>)

\* bundle: redact_secrets, then compress_whitespace, then deduplicate_content
Processed(t) == deduplicate_content(compress_whitespace(redact_secrets(t)))

\* x or "None"
OrNone(t) == IF t = <<>> THEN NONE ELSE t

\* x if x.strip() else "None"
BodyOf(t) == IF Strip(t) # <<>> THEN t ELSE NONE

\* _manual_fixed_bundle with the heading of a blank section left out
_manual_fixed_bundle_omitting(architecture, apis, configuration, schema, session, cross_repo, expanded) ==
    LET Section(h, t) == IF Strip(t) # <<>> /\ t # NONE THEN <<h, t>> ELSE <<>>
    IN JoinLines(
        <<<<"#", " ", "P", "r", "o", "j", "e", "c", "t", " ", "C", "o", "n", "t", "e", "x", "t", " ", "f", "o", "r", " ", "A", "I", " ", "T", "o", "o", "l", "s", "\n">>,
          <<"*", "G", "e", "n", "e", "r", "a", "t", "e", "d", " ", "b", "y", " ", "C", "o", "n", "t", "e", "x", "t", " ", "E", "n", "g", "i", "n", "e", " ", "V", "1", "*", "\n">>>>
        \o Section(<<"#", "#", " ", "A", "r", "c", "h", "i", "t", "e", "c", "t", "u", "r", "e", "\n">>, architecture)
        \o Section(<<"\n", "#", "#", " ", "A", "P", "I", "s", "\n">>, apis)
        \o Section(<<"\n", "#", "#", " ", "C", "o", "n", "f", "i", "g", "u", "r", "a", "t", "i", "o", "n", "\n">>, configuration)
        \o Section(<<"\n", "#", "#", " ", "D", "a", "t", "a", "b", "a", "s", "e", " ", "S", "c", "h", "e", "m", "a", "\n">>, schema)
        \o Section(<<"\n", "#", "#", " ", "S", "e", "s", "s", "i", "o", "n", " ", "N", "o", "t", "e", "s", "\n">>, session)
        \o Section(<<"\n", "#", "#", " ", "C", "r", "o", "s", "s", "-", "R", "e", "p", "o", " ", "N", "o", "t", "e", "s", "\n">>, cross_repo)
        \o Section(<<"\n", "#", "#", " ", "E", "x", "p", "a", "n", "d", "e", "d", " ", "F", "i", "l", "e", "s", "\n">>, expanded))

\* _manual_fixed_bundle
_manual_fixed_bundle(architecture, apis, configuration, schema, session, cross_repo, expanded) ==
    JoinLines(
        <<<<"#", " ", "P", "r", "o", "j", "e", "c", "t", " ", "C", "o", "n", "t", "e", "x", "t", " ", "f", "o", "r", " ", "A", "I", " ", "T", "o", "o", "l", "s", "\n">>,
          <<"*", "G", "e", "n", "e", "r", "a", "t", "e", "d", " ", "b", "y", " ", "C", "o", "n", "t", "e", "x", "t", " ", "E", "n", "g", "i", "n", "e", " ", "V", "1", "*", "\n">>,
          <<"#", "#", " ", "A", "r", "c", "h", "i", "t", "e", "c", "t", "u", "r", "e", "\n">>,
          BodyOf(architecture),
          <<"\n", "#", "#", " ", "A", "P", "I", "s", "\n">>,
          BodyOf(apis),
          <<"\n", "#", "#", " ", "C", "o", "n", "f", "i", "g", "u", "r", "a", "t", "i", "o", "n", "\n">>,
          BodyOf(configuration),
          <<"\n", "#", "#", " ", "D", "a", "t", "a", "b", "a", "s", "e", " ", "S", "c", "h", "e", "m", "a", "\n">>,
          BodyOf(schema),
          <<"\n", "#", "#", " ", "S", "e", "s", "s", "i", "o", "n", " ", "N", "o", "t", "e", "s", "\n">>,
          BodyOf(session),
          <<"\n", "#", "#", " ", "C", "r", "o", "s", "s", "-", "R", "e", "p", "o", " ", "N", "o", "t", "e", "s", "\n">>,
          BodyOf(cross_repo),
          <<"\n", "#", "#", " ", "E", "x", "p", "a", "n", "d", "e", "d", " ", "F", "i", "l", "e", "s", "\n">>,
          BodyOf(expanded)>>)

\* Processed, tabulated for the texts the collectors can read
ProcessedText ==
    [t \in ArchTexts \cup ApiTexts \cup ConfTexts \cup SchemaTexts
            \cup SessionTexts \cup CrossTexts \cup {MarkedSession} |-> Processed(t)]

\* The sections bundle hands to the assembler, given the context file read
Sections(cf) ==
    LET base == _collect_structured_baseline
    IN <<ProcessedText[base[1]], ProcessedText[base[2]], ProcessedText[base[3]],
         ProcessedText[base[4]], ProcessedText[_read_session],
         ProcessedText[_read_cross_repo], Processed(_read_expanded_section(cf))>>

\* bundle: content
Content(cf) ==
    Bind(Sections(cf), LAMBDA s :
        _manual_fixed_bundle(OrNone(s[1]), OrNone(s[2]), OrNone(s[3]), OrNone(s[4]),
                             OrNone(s[5]), OrNone(s[6]), OrNone(s[7])))

Report(cmd, raised, tokens, max_tokens) ==
    [cmd |-> cmd, status |-> raised, tokens |-> tokens,
     over |-> cmd = "bundle" /\ tokens > max_tokens, max_tokens |-> max_tokens]

\* bundle that cuts the document at the budget
bundle_truncating(use_ai, max_tokens) ==
    LET content == Content(context_file)
        starts == {k \in 1..Len(content) :
                    content[k] \notin Whitespace /\ (k = 1 \/ content[k - 1] \in Whitespace)}
        cut == {k \in starts : Cardinality({j \in starts : j < k}) = max_tokens}
        written == IF cut = {} THEN content
                   ELSE Slice(content, 1, (CHOOSE k \in cut : TRUE) - 1)
    IN /\ ~(use_ai /\ openrouter_api_key)
       /\ context_file' = File(written)
       /\ report' = Report("bundle", "ok", count_tokens(content), max_tokens)
       /\ pending' = <<>>
       /\ UNCHANGED <<inputs, notBundleVars>>

\* `context bundle`
bundle(use_ai, max_tokens) ==
    \E content \in {Content(context_file)} :
       /\ ~(use_ai /\ openrouter_api_key)
       /\ context_file' = File(content)
       /\ report' = Report("bundle", "ok", count_tokens(content), max_tokens)
       /\ pending' = <<>>
       /\ UNCHANGED <<inputs, notBundleVars>>

\* The files `expand` is called on; click.Path(exists=True) guarantees each
\* exists. x.exe has an extension that is not allowed.
ExpandSources == {<<"a", ".", "p", "y">>, <<"c", ".", "p", "y">>, <<"s", ".", "e", "n", "v">>, <<"n", ".", "m", "d">>, <<"x", ".", "e", "x", "e">>}

\* path.read_text()
ReadText(s) ==
    CASE s = <<"a", ".", "p", "y">> -> <<"x", " ", "=", " ", "1", "\n">>
      [] s = <<"c", ".", "p", "y">> -> <<"y", " ", "=", " ", "2", "\n">>
      [] s = <<"s", ".", "e", "n", "v">> -> <<"A", "P", "I", "_", "K", "E", "Y", "=", "h", "u", "n", "t", "e", "r", "2", "\n", "h", "o", "s", "t", " ", "=", " ", "1", "0", ".", "0", ".", "0", ".", "1", "\n">>
      [] s = <<"n", ".", "m", "d">> -> <<"#", " ", "N", "o", "t", "e", "s", "\n", "\n", " ", " ", "f", "i", "r", "s", "t", " ", " ", "\n">>
      [] OTHER -> <<"M", "Z">>

\* path.name
PathName(s) == Slice(s, LastOf({k \in 1..Len(s) : s[k] = "/"}, Len(s), 0) + 1, Len(s))

\* path.suffix.lower()
Suffix(s) ==
    Bind(PathName(s), LAMBDA name :
    Bind(LastOf({k \in 2..Len(name) : name[k] = "."}, Len(name), 0), LAMBDA dot :
        IF dot = 0 THEN <<>> ELSE LowerStr(Slice(name, dot, Len(name)))))

\* config.get("allowed_extensions", []), as the project configures it
allowed_extensions == {<<".", "p", "y">>, <<".", "e", "n", "v">>, <<".", "m", "d">>}

\* path.stat().st_size, in bytes
StatSize(s) == Len(ReadText(s))

\* expand's default for a context file that does not exist
DefaultSkeleton ==
    <<"#", " ", "P", "r", "o", "j", "e", "c", "t", " ", "C", "o", "n", "t", "e", "x", "t", " ", "f", "o", "r", " ", "A", "I", " ", "T", "o", "o", "l", "s", "\n", "\n", "#", "#", " ", "A", "r", "c", "h", "i", "t", "e", "c", "t", "u", "r", "e", "\n", "N", "o", "n", "e", "\n", "\n", "#", "#", " ", "A", "P", "I", "s", "\n", "N", "o", "n", "e", "\n", "\n", "#", "#", " ", "C", "o", "n", "f", "i", "g", "u", "r", "a", "t", "i", "o", "n", "\n", "N", "o", "n", "e", "\n", "\n", "#", "#", " ", "D", "a", "t", "a", "b", "a", "s", "e", " ", "S", "c", "h", "e", "m", "a", "\n", "N", "o", "n", "e", "\n", "\n", "#", "#", " ", "S", "e", "s", "s", "i", "o", "n", " ", "N", "o", "t", "e", "s", "\n", "N", "o", "n", "e", "\n", "\n", "#", "#", " ", "C", "r", "o", "s", "s", "-", "R", "e", "p", "o", " ", "N", "o", "t", "e", "s", "\n", "N", "o", "n", "e", "\n", "\n", "#", "#", " ", "E", "x", "p", "a", "n", "d", "e", "d", " ", "F", "i", "l", "e", "s", "\n">>

\* validate_path_in_project: the path does not climb out of the project root
validate_path_in_project(s) == ~StartsWithAt(s, 1, <<".", ".", "/">>)

\* The validation of one file in expand's loop: the exception it raises
ExpandValidation(s) ==
    IF ~validate_path_in_project(s) THEN "BadParameter"
    ELSE IF Suffix(s) \notin allowed_extensions THEN "BadParameter"
    ELSE IF StatSize(s) > max_file_size_kb * 1024 THEN "BadParameter"
    ELSE "none"

PreviewLines == 50

\* [l.strip() for l in raw.split('\n') if l.strip()]
RECURSIVE StrippedLines(_)
StrippedLines(lines) ==
    IF lines = <<>> THEN <<>>
    ELSE Bind(Strip(Head(lines)), LAMBDA l :
            IF l = <<>> THEN StrippedLines(Tail(lines))
            ELSE <<l>> \o StrippedLines(Tail(lines)))

\* expand: compressed, for the redacted text raw of a file with this suffix
Compressed(suffix, raw) ==
    IF suffix \in {<<".", "p", "y">>, <<".", "j", "s">>, <<".", "t", "s">>, <<".", "j", "a", "v", "a">>, <<".", "c">>, <<".", "c", "p", "p">>}
    THEN compress_code(raw, IF suffix = <<".", "p", "y">> THEN "python" ELSE "javascript")
    ELSE IF suffix \in {<<".", "j", "s", "o", "n">>, <<".", "y", "m", "l">>, <<".", "y", "a", "m", "l">>, <<".", "t", "o", "m", "l">>, <<".", "i", "n", "i">>, <<".", "e", "n", "v">>}
    THEN summarize_config(raw)
    ELSE Bind(StrippedLines(SplitLines(raw)), LAMBDA lines :
            JoinLines(Slice(lines, 1,
                IF Len(lines) < PreviewLines THEN Len(lines) ELSE PreviewLines)))

\* One entry of the Expanded Files section: the two addition_lines of a file
Entry(s) ==
    Bind(Compressed(Suffix(s), redact_secrets(ReadText(s))), LAMBDA compressed :
        [heading |-> <<"#", "#", "#", " ">> \o PathName(s),
         summary |-> IF Strip(compressed) # <<>> THEN compressed ELSE NO_SUMMARY])

\* Entry, tabulated for the files expand can be called on
EntryOf == [s \in ExpandSources |-> Entry(s)]

\* The loop of expand over its files, from index i: the entries collected
\* and the exception that ended it
RECURSIVE ExpandLoop(_, _, _)
ExpandLoop(files, i, entries) ==
    IF i > Len(files) THEN [entries |-> entries, raised |-> "none"]
    ELSE IF ExpandValidation(files[i]) # "none"
    THEN [entries |-> entries, raised |-> ExpandValidation(files[i])]
    ELSE ExpandLoop(files, i + 1, Append(entries, EntryOf[files[i]]))

\* addition_lines: heading and summary of each entry
RECURSIVE AdditionLines(_)
AdditionLines(entries) ==
    IF entries = <<>> THEN <<>>
    ELSE <<Head(entries).heading, Head(entries).summary>> \o AdditionLines(Tail(entries))

\* The number of entries in a document: its lines that start with "### "
CountEntries(t) ==
    Cardinality({k \in 1..Len(t) :
        StartsWithAt(t, k, <<"#", "#", "#", " ">>) /\ (k = 1 \/ t[k - 1] = "\n")})

\* expand: existing, with the marker appended if it is missing
Existing(read) ==
    IF ~Contains(read, EXPANDED_MARKER)
    THEN RStrip(read) \o <<"\n", "\n", "#", "#", " ", "E", "x", "p", "a", "n", "d", "e", "d", " ", "F", "i", "l", "e", "s", "\n">>
    ELSE read

\* expand: full_content
FullContent(existing, entries) ==
    RStrip(existing) \o <<"\n">> \o Join(AdditionLines(entries), <<"\n", "\n">>) \o <<"\n">>

\* expand that writes the entries collected before a file failed
expand_partial(files) ==
    \E done \in {ExpandLoop(files, 1, <<>>)} :
        \E full_content \in
            {FullContent(Existing(IF context_file.exists THEN context_file.text
                                  ELSE DefaultSkeleton), done.entries)} :
        /\ context_file' = IF done.entries = <<>> THEN context_file ELSE File(full_content)
        /\ pending' = pending \o done.entries
        /\ report' = IF done.raised # "none" THEN Report("expand", done.raised, 0, 0)
                     ELSE Report("expand", "ok", count_tokens(full_content), 0)
        /\ UNCHANGED <<inputs, notBundleVars>>

\* `context expand FILES`
expand(files) ==
    \E done \in {ExpandLoop(files, 1, <<>>)} :
        IF done.raised # "none"
        THEN /\ report' = Report("expand", done.raised, 0, 0)
             /\ UNCHANGED <<context_file, inputs, pending, notBundleVars>>
        ELSE \E full_content \in
                 {FullContent(Existing(IF context_file.exists THEN context_file.text
                                       ELSE DefaultSkeleton), done.entries)} :
             /\ context_file' = File(full_content)
             /\ pending' = pending \o done.entries
             /\ report' = Report("expand", "ok", count_tokens(full_content), 0)
             /\ UNCHANGED <<inputs, notBundleVars>>

ExpandBatches(k) == [1..k -> ExpandSources]

BundleCmd == \E max_tokens \in Budgets : bundle(TRUE, max_tokens)

ExpandCmd ==
    \E k \in 1..MaxExpand :
        /\ CountEntries(IF context_file.exists THEN context_file.text ELSE <<>>) + k
             <= MaxEntries
        /\ \E files \in ExpandBatches(k) : expand(files)

\* The inputs of a run
AllInputs ==
    [arch : ArchTexts, apis : ApiTexts, conf : ConfTexts,
     schema : SchemaTexts, session : SessionTexts, cross : CrossTexts]

EmptyInputs == {i \in AllInputs : \A f \in DOMAIN i : Strip(i[f]) = <<>>}
GivenInputs == {i \in AllInputs : \A f \in DOMAIN i : Strip(i[f]) # <<>>}

\* Runs whose only input is the session notes that quote a heading
MarkedInputs == {[i EXCEPT !.session = MarkedSession] : i \in EmptyInputs}

BundleInit ==
    /\ StoreIdle
    /\ RedactIdle
    /\ NormalizeIdle
    /\ CompressIdle
    /\ WrapperIdle
    /\ context_file = NoContextFile
    /\ inputs \in EmptyInputs \cup GivenInputs \cup MarkedInputs
    /\ pending = <<>>
    /\ report = Report("init", "ok", 0, 0)

BundleNext ==
    \/ BundleCmd
    \/ ExpandCmd

SpecBundle == BundleInit /\ [][BundleNext]_vars

(***************************************************************************)
(* SpecAssemble: one bundle run on every combination of sections           *)
(***************************************************************************)
\* The context file before the run: none, one without entries, one that an
\* expand has appended an entry to
AssembleFiles ==
    {NoContextFile, File(DefaultSkeleton),
     File(DefaultSkeleton \o <<"#", "#", "#", " ", "a", ".", "p", "y", "\n", "\n", "(", "n", "o", " ", "d", "o", "c", "s", "t", "r", "i", "n", "g", "s", ")", "\n">>)}

AssembleInit ==
    /\ StoreIdle
    /\ RedactIdle
    /\ NormalizeIdle
    /\ CompressIdle
    /\ WrapperIdle
    /\ context_file \in AssembleFiles
    /\ inputs \in AllInputs
    /\ pending = <<>>
    /\ report = Report("init", "ok", 0, 0)

Assemble ==
    /\ report.cmd = "init"
    /\ BundleCmd

AssembleNext == Assemble

SpecAssemble == AssembleInit /\ [][AssembleNext]_vars

(***************************************************************************)
(* COMPRESS: LongcodezipWrapper and compress_cmd                           *)
(***************************************************************************)
MaxFiles == 2      \* files `baseline add` has put into the baseline directory

\* None of Python
PyNone == "None"

\* with self._timeout_context(120)
timeout_seconds == 120

\* How long a call of the backend runs, in seconds: below, at and above the
\* ceiling
Durations == {60, 120, 180}

\* The names in the baseline directory: a file `baseline add` copied there,
\* or compressed_<name> for a name of the directory; <<k, f>> is f with k
\* prefixes compressed_
AddedFiles == {<<"a.md", "b.py", "c.md">>[k] : k \in 1..MaxFiles}
BaselineName(f) == <<0, f>>

\* f"compressed_{file_path.name}"
CompressedName(n) == <<n[1] + 1, n[2]>>

\* A directory entry: a file of text, a file whose bytes are not UTF-8, a
\* subdirectory
TextFile(content) == [kind |-> "text", content |-> content]
BinaryFile == [kind |-> "binary", content |-> <<>>]
Directory == [kind |-> "dir", content |-> <<>>]

\* What compressor.compress_code_file returns for code: a dict with the
\* compressed code, or a dict without that key
compress_code_file(code, complete) ==
    [compressed_code |-> IF complete THEN <<"compressed", code>> ELSE PyNone,
     compressed_prompt |-> IF complete THEN <<"prompt", code>> ELSE PyNone,
     compression_ratio |-> IF complete THEN 1 ELSE PyNone]

\* What a call of the backend does: return a complete dict, return a dict
\* without compressed_code, raise
BackendResults == {"complete", "partial", "raises"}

\* (None, None, None)
FailureTriple == <<PyNone, PyNone, PyNone>>

\* LongcodezipWrapper.__init__ run at construction with the compressor
\* initialized eagerly
LongcodezipWrapper_eager(installed) ==
    IF installed = "missing"
    THEN [raised |-> "ImportError", compressor |-> PyNone]
    ELSE [raised |-> "none", compressor |-> PyNone]

\* LongcodezipWrapper.__init__: the compressor is initialized lazily
LongcodezipWrapper(installed) == [raised |-> "none", compressor |-> PyNone]

\* _initialize_compressor: [raised, compressor]
_initialize_compressor(wrapper, installed) ==
    IF wrapper.compressor # PyNone THEN [raised |-> "none", compressor |-> wrapper.compressor]
    ELSE IF installed = "missing" THEN [raised |-> "ImportError", compressor |-> PyNone]
    ELSE IF installed = "broken" THEN [raised |-> "RuntimeError", compressor |-> PyNone]
    ELSE [raised |-> "none", compressor |-> "CodeCompressor"]

\* _timeout_context that never looks at the flag of the watcher thread
_timeout_context_unchecked(sigalrm, timed_out, body_raised) == body_raised

\* _timeout_context, from the end of the with body on: the exception that
\* leaves the with statement. An exception of the body passes through; on
\* the watcher-thread path a body that ended normally (also by its return)
\* resumes the generator after the yield, which raises if the flag is set.
_timeout_context(sigalrm, timed_out, body_raised) ==
    IF body_raised # "none" THEN body_raised
    ELSE IF ~sigalrm /\ timed_out THEN "TimeoutError"
    ELSE "none"

\* compress: what it returns when the with statement is left with the
\* exception raised (every exception is caught) or with the result
compress_returns(raised, result) ==
    IF raised # "none" THEN FailureTriple
    ELSE <<result.compressed_code, result.compressed_prompt, result.compression_ratio>>

\* The call in flight
NoCall ==
    [state |-> "idle", file |-> <<>>, duration |-> 0, result |-> "none",
     elapsed |-> 0, timed_out |-> FALSE, returned |-> <<>>]

\* compress_cmd: the rest of the loop body once compress has returned for
\* file n, or once reading n raised
Handled(n, raised, triple) ==
    IF raised # "none"
    THEN /\ job' = [job EXCEPT !.todo = @ \ {n}, !.reported = (n :> "error") @@ @]
         /\ UNCHANGED compress_dir
    ELSE IF triple[1] # PyNone
    THEN /\ compress_dir' = (CompressedName(n) :> TextFile(triple[1])) @@ compress_dir
         /\ job' = [job EXCEPT !.todo = @ \ {n}, !.reported = (n :> "compressed") @@ @]
    ELSE /\ job' = [job EXCEPT !.todo = @ \ {n}, !.reported = (n :> "failed") @@ @]
         /\ UNCHANGED compress_dir

\* `context compress`, up to the loop
compress_cmd ==
    /\ job.pc = "start"
    /\ \E rate_ok \in BOOLEAN :
       \E wrapper \in {LongcodezipWrapper(backend.installed)} :
        IF ~rate_ok
        THEN job' = [job EXCEPT !.pc = "done", !.final = "error: rate"]
        ELSE IF DOMAIN compress_dir = {}
        THEN job' = [job EXCEPT !.pc = "done", !.final = "warn: no files"]
        ELSE IF wrapper.raised = "ImportError"
        THEN job' = [job EXCEPT !.pc = "done", !.final = "error: initialize",
                                !.baseline_files = DOMAIN compress_dir]
        ELSE IF wrapper.raised # "none"
        THEN job' = [job EXCEPT !.pc = "done", !.final = "raised",
                                !.baseline_files = DOMAIN compress_dir]
        ELSE job' = [job EXCEPT !.pc = "loop", !.baseline_files = DOMAIN compress_dir,
                                !.todo = DOMAIN compress_dir, !.wrapper = wrapper]
    /\ UNCHANGED <<backend, compress_dir, call, notCompressVars>>

\* One iteration of the loop over baseline_files, up to the call of the
\* backend: is_file, read_text, compress with _initialize_compressor, the
\* timeout armed
visit_file ==
    /\ job.pc = "loop"
    /\ call.state # "running"
    /\ \E n \in job.todo :
        IF compress_dir[n].kind = "dir"
        THEN /\ job' = [job EXCEPT !.todo = @ \ {n}]
             /\ UNCHANGED <<compress_dir, call>>
        ELSE IF compress_dir[n].kind = "binary"
        THEN /\ Handled(n, "UnicodeDecodeError", FailureTriple)
             /\ UNCHANGED call
        ELSE \E init \in {_initialize_compressor(job.wrapper, backend.installed)} :
            IF init.raised # "none"
            THEN /\ Handled(n, "none", compress_returns(init.raised, PyNone))
                 /\ call' = [NoCall EXCEPT !.state = "returned", !.file = n,
                                           !.returned = compress_returns(init.raised, PyNone)]
            ELSE /\ \E d \in Durations, r \in BackendResults :
                    call' = [NoCall EXCEPT !.state = "running", !.file = n,
                                           !.duration = d, !.result = r]
                 /\ job' = [job EXCEPT !.wrapper.compressor = init.compressor]
                 /\ UNCHANGED compress_dir
    /\ UNCHANGED <<backend, notCompressVars>>

\* The watcher of the timeout is due and has not acted yet
WatcherDue ==
    /\ call.elapsed >= timeout_seconds
    /\ backend.sigalrm \/ ~call.timed_out

\* Time passes while the backend runs, up to the next instant at which
\* something happens: the ceiling or the end of the call. A watcher that is
\* due acts before time passes on.
backend_runs ==
    /\ call.state = "running"
    /\ call.elapsed < call.duration
    /\ ~WatcherDue
    /\ call' = [call EXCEPT !.elapsed =
                    IF call.elapsed < timeout_seconds /\ timeout_seconds < call.duration
                    THEN timeout_seconds ELSE call.duration]
    /\ UNCHANGED <<backend, compress_dir, job, notCompressVars>>

\* timeout_handler: SIGALRM is delivered while the backend runs, the handler
\* raises TimeoutError in the with body; compress returns and compress_cmd
\* goes on
timeout_handler ==
    /\ call.state = "running"
    /\ backend.sigalrm
    /\ call.elapsed >= timeout_seconds
    /\ \E raised \in {_timeout_context(TRUE, FALSE, "TimeoutError")} :
       \E triple \in {compress_returns(raised, PyNone)} :
        /\ Handled(call.file, "none", triple)
        /\ call' = [call EXCEPT !.state = "returned", !.returned = triple]
    /\ UNCHANGED <<backend, notCompressVars>>

\* timeout_func: the watcher thread wakes after its sleep and sets the flag
timeout_func ==
    /\ call.state = "running"
    /\ ~backend.sigalrm
    /\ call.elapsed >= timeout_seconds
    /\ ~call.timed_out
    /\ call' = [call EXCEPT !.timed_out = TRUE]
    /\ UNCHANGED <<backend, compress_dir, job, notCompressVars>>

\* The backend call ends: the with body finishes, the with statement is
\* left, compress returns and compress_cmd handles the triple
backend_returns ==
    /\ call.state = "running"
    /\ call.elapsed = call.duration
    /\ \E raised \in {_timeout_context(backend.sigalrm, call.timed_out,
                          IF call.result = "raises" THEN "Exception" ELSE "none")} :
       \E triple \in {compress_returns(raised,
                          compress_code_file(compress_dir[call.file].content,
                                             call.result = "complete"))} :
        /\ Handled(call.file, "none", triple)
        /\ call' = [call EXCEPT !.state = "returned", !.returned = triple]
    /\ UNCHANGED <<backend, notCompressVars>>

\* compress_cmd after the loop: the summary, or the error that nothing was
\* compressed
summary_report ==
    /\ job.pc = "loop"
    /\ job.todo = {}
    /\ call.state # "running"
    /\ job' = [job EXCEPT !.pc = "done", !.final =
                  IF \E n \in DOMAIN job.reported : job.reported[n] = "compressed"
                  THEN "success" ELSE "error: none compressed"]
    /\ UNCHANGED <<backend, compress_dir, call, notCompressVars>>

\* The environment: is the backend installed, does the platform have SIGALRM
Backends == [installed : {"missing", "broken", "ready"}, sigalrm : BOOLEAN]

\* The baseline directory before the run: the added files (the last of them
\* text, not UTF-8, or a subdirectory), and maybe the compressed_ file an
\* earlier run wrote for the first of them
BaselineDirs ==
    {[n \in {BaselineName(f) : f \in AddedFiles} |->
         IF n[2] = <<"a.md", "b.py", "c.md">>[MaxFiles] THEN last
         ELSE TextFile(<<"text", n[2]>>)] @@ earlier :
        last \in {TextFile(<<"text", "last">>), BinaryFile, Directory},
        earlier \in {<<>>, CompressedName(BaselineName("a.md")) :> TextFile(<<"earlier">>)}}

CompressInit ==
    /\ StoreIdle
    /\ RedactIdle
    /\ BundleIdle
    /\ NormalizeIdle
    /\ WrapperIdle
    /\ backend \in Backends
    /\ compress_dir \in BaselineDirs
    /\ job = [pc |-> "start", final |-> "none", baseline_files |-> {}, todo |-> {},
              reported |-> <<>>, wrapper |-> [raised |-> "none", compressor |-> PyNone]]
    /\ call = NoCall

CompressNext ==
    \/ compress_cmd
    \/ visit_file
    \/ backend_runs
    \/ timeout_handler
    \/ timeout_func
    \/ backend_returns
    \/ summary_report

SpecCompress == CompressInit /\ [][CompressNext]_vars
(***************************************************************************)
(* SpecWrapper: one LongcodezipWrapper shared by the main thread and a     *)
(* worker thread, on a platform with SIGALRM                               *)
(***************************************************************************)
MaxCalls == 2      \* calls each thread makes

Threads == {"main", "worker"}

\* self._compressor = None, and the instances constructed: 1, 2, ...
NotBuilt == 0

\* self._compressor_lock when no thread holds it
Unlocked == "unlocked"

\* The SIGALRM handler of the process before any call
SIG_DFL == "SIG_DFL"

\* `with self._compressor_lock` entered although another thread holds it
_compressor_lock_reentered(holder, t) == t

\* `with self._compressor_lock`: the holder once t has tried to enter
_compressor_lock_acquire(holder, t) == IF holder = Unlocked THEN t ELSE holder

\* What the constructor of the backend does: return an instance, or raise
Constructions == {"ok", "ImportError", "RuntimeError"}

Caller(pc, compressor, raised, calls) ==
    [pc |-> pc, compressor |-> compressor, raised |-> raised, calls |-> calls]

WrapperInit ==
    /\ StoreIdle
    /\ RedactIdle
    /\ BundleIdle
    /\ NormalizeIdle
    /\ CompressIdle
    /\ shared_wrapper = [compressor |-> NotBuilt, lock |-> Unlocked, built |-> 0, failed |-> 0]
    /\ callers = [t \in Threads |-> Caller("idle", NotBuilt, "none", 0)]
    /\ sigalrm_state = [handler |-> SIG_DFL, old_handler |-> SIG_DFL, before |-> SIG_DFL,
                        alarm |-> FALSE, due |-> FALSE]

\* compress is called; before remembers the handler installed when the
\* main thread's call began
call_compress(t) ==
    /\ callers[t].pc \in {"idle", "returned", "src_done"}
    /\ callers[t].calls < MaxCalls
    /\ callers' = [callers EXCEPT ![t] = Caller("check", NotBuilt, "none", @.calls + 1)]
    /\ sigalrm_state' = IF t = "main"
                        THEN [sigalrm_state EXCEPT !.before = sigalrm_state.handler]
                        ELSE sigalrm_state
    /\ UNCHANGED <<shared_wrapper, notWrapperVars>>

\* _initialize_compressor: the check before the lock
first_check(t) ==
    /\ callers[t].pc = "check"
    /\ callers' = [callers EXCEPT ![t] =
            IF shared_wrapper.compressor # NotBuilt
            THEN [@ EXCEPT !.pc = "timeout", !.compressor = shared_wrapper.compressor]
            ELSE [@ EXCEPT !.pc = "acquire"]]
    /\ UNCHANGED <<shared_wrapper, sigalrm_state, notWrapperVars>>

\* _initialize_compressor: the lock is taken
acquire(t) ==
    /\ callers[t].pc = "acquire"
    /\ _compressor_lock_acquire(shared_wrapper.lock, t) = t
    /\ shared_wrapper' = [shared_wrapper EXCEPT !.lock = t]
    /\ callers' = [callers EXCEPT ![t].pc = "locked"]
    /\ UNCHANGED <<sigalrm_state, notWrapperVars>>

\* _initialize_compressor: the check under the lock; the return leaves the
\* with statement, which releases the lock
second_check(t) ==
    /\ callers[t].pc = "locked"
    /\ IF shared_wrapper.compressor # NotBuilt
       THEN /\ callers' = [callers EXCEPT ![t] =
                    [@ EXCEPT !.pc = "timeout", !.compressor = shared_wrapper.compressor]]
            /\ shared_wrapper' = [shared_wrapper EXCEPT !.lock = Unlocked]
       ELSE /\ callers' = [callers EXCEPT ![t].pc = "construct"]
            /\ UNCHANGED shared_wrapper
    /\ UNCHANGED <<sigalrm_state, notWrapperVars>>

\* _initialize_compressor: the backend is constructed and assigned, or the
\* constructor raises; either way the with statement releases the lock.
\* compress catches what was raised and returns the failure triple.
construct(t) ==
    /\ callers[t].pc = "construct"
    /\ \E c \in Constructions :
        IF c = "ok"
        THEN /\ shared_wrapper' = [shared_wrapper EXCEPT !.compressor = shared_wrapper.built + 1,
                                                         !.built = @ + 1, !.lock = Unlocked]
             /\ callers' = [callers EXCEPT ![t].pc = "return_compressor"]
        ELSE /\ shared_wrapper' = [shared_wrapper EXCEPT !.failed = @ + 1, !.lock = Unlocked]
             /\ callers' = [callers EXCEPT ![t] = [@ EXCEPT !.pc = "returned", !.raised = c]]
    /\ UNCHANGED <<sigalrm_state, notWrapperVars>>

\* _initialize_compressor: return self._compressor, after the lock
return_compressor(t) ==
    /\ callers[t].pc = "return_compressor"
    /\ callers' = [callers EXCEPT ![t] =
            [@ EXCEPT !.pc = "timeout", !.compressor = shared_wrapper.compressor]]
    /\ UNCHANGED <<shared_wrapper, sigalrm_state, notWrapperVars>>

\* _timeout_context up to the yield: the handler is set and the alarm
\* armed. signal.signal raises ValueError in a thread that is not the main
\* thread; compress catches it.
arm(t) ==
    /\ callers[t].pc = "timeout"
    /\ IF t = "main"
       THEN /\ sigalrm_state' = [sigalrm_state EXCEPT !.handler = "timeout_handler",
                                                      !.old_handler = sigalrm_state.handler,
                                                      !.alarm = TRUE, !.due = FALSE]
            /\ callers' = [callers EXCEPT ![t].pc = "body"]
       ELSE /\ callers' = [callers EXCEPT ![t] = [@ EXCEPT !.pc = "returned",
                                                            !.raised = "ValueError"]]
            /\ UNCHANGED sigalrm_state
    /\ UNCHANGED <<shared_wrapper, notWrapperVars>>

\* The with body ends: the backend returned, or raised
body_ends(t) ==
    /\ callers[t].pc = "body"
    /\ \E r \in {"none", "Exception"} :
        callers' = [callers EXCEPT ![t] = [@ EXCEPT !.pc = "finally", !.raised = r]]
    /\ UNCHANGED <<shared_wrapper, sigalrm_state, notWrapperVars>>

\* The seconds of the pending alarm have passed
alarm_expires ==
    /\ sigalrm_state.alarm
    /\ ~sigalrm_state.due
    /\ sigalrm_state' = [sigalrm_state EXCEPT !.due = TRUE]
    /\ UNCHANGED <<shared_wrapper, callers, notWrapperVars>>

\* SIGALRM is delivered: timeout_handler raises TimeoutError in the main
\* thread, at the statement it is about to run. In the with body the
\* finally clause runs next; in the finally clause, before signal.alarm(0),
\* the exception leaves the clause and its remaining statements are not run.
\* In compress_src either way the except clause of the file is next.
sigalrm_delivered ==
    /\ sigalrm_state.alarm
    /\ sigalrm_state.due
    /\ sigalrm_state.handler = "timeout_handler"
    /\ callers["main"].pc \in {"body", "finally", "src_body", "src_finally"}
    /\ sigalrm_state' = [sigalrm_state EXCEPT !.alarm = FALSE, !.due = FALSE]
    /\ callers' = [callers EXCEPT !["main"] =
            [@ EXCEPT !.raised = "TimeoutError",
                      !.pc = CASE callers["main"].pc = "body" -> "finally"
                               [] callers["main"].pc = "finally" -> "returned"
                               [] callers["main"].pc = "src_body" -> "src_finally"
                               [] OTHER -> "src_done"]]
    /\ UNCHANGED <<shared_wrapper, notWrapperVars>>

\* _timeout_context, finally: signal.alarm(0)
cancel_alarm(t) ==
    /\ callers[t].pc = "finally"
    /\ sigalrm_state' = [sigalrm_state EXCEPT !.alarm = FALSE, !.due = FALSE]
    /\ callers' = [callers EXCEPT ![t].pc = "restore"]
    /\ UNCHANGED <<shared_wrapper, notWrapperVars>>

\* _timeout_context, finally: signal.signal(signal.SIGALRM, old_handler);
\* compress returns
restore_handler(t) ==
    /\ callers[t].pc = "restore"
    /\ sigalrm_state' = [sigalrm_state EXCEPT !.handler = sigalrm_state.old_handler]
    /\ callers' = [callers EXCEPT ![t].pc = "returned"]
    /\ UNCHANGED <<shared_wrapper, notWrapperVars>>

\* compress_src, one file of its loop up to the call of the backend: the
\* handler is set (the one before is not kept) and the alarm armed
src_arm ==
    /\ callers["main"].pc \in {"idle", "returned", "src_done"}
    /\ callers["main"].calls < MaxCalls
    /\ sigalrm_state' = [sigalrm_state EXCEPT !.handler = "timeout_handler",
                                              !.alarm = TRUE, !.due = FALSE]
    /\ callers' = [callers EXCEPT !["main"] = Caller("src_body", NotBuilt, "none", @.calls + 1)]
    /\ UNCHANGED <<shared_wrapper, notWrapperVars>>

\* compress_src: the try body of the file ends
src_body_ends ==
    /\ callers["main"].pc = "src_body"
    /\ \E r \in {"none", "Exception"} :
        callers' = [callers EXCEPT !["main"] = [@ EXCEPT !.pc = "src_finally", !.raised = r]]
    /\ UNCHANGED <<shared_wrapper, sigalrm_state, notWrapperVars>>

\* compress_src, finally: signal.alarm(0); the loop goes on
src_cancel_alarm ==
    /\ callers["main"].pc = "src_finally"
    /\ sigalrm_state' = [sigalrm_state EXCEPT !.alarm = FALSE, !.due = FALSE]
    /\ callers' = [callers EXCEPT !["main"].pc = "src_done"]
    /\ UNCHANGED <<shared_wrapper, notWrapperVars>>

WrapperNext ==
    \/ \E t \in Threads : call_compress(t)
    \/ \E t \in Threads : first_check(t)
    \/ \E t \in Threads : acquire(t)
    \/ \E t \in Threads : second_check(t)
    \/ \E t \in Threads : construct(t)
    \/ \E t \in Threads : return_compressor(t)
    \/ \E t \in Threads : arm(t)
    \/ \E t \in Threads : body_ends(t)
    \/ alarm_expires
    \/ sigalrm_delivered
    \/ \E t \in Threads : cancel_alarm(t)
    \/ \E t \in Threads : restore_handler(t)
    \/ src_arm
    \/ src_body_ends
    \/ src_cancel_alarm

SpecWrapper == WrapperInit /\ [][WrapperNext]_vars
(***************************************************************************)
(* Claims about the hash store, checked under SpecStore and SpecTracked.   *)
(***************************************************************************)
PersistedStore == load_hashes(hashes_file).store

ScanReported == outcome.cmd \in {"review", "status"} /\ outcome.status = "ok"

\* C1: check_staleness is false for a path with no entry in the store, false
\* right after update_hash with the file unmodified, and otherwise true
\* exactly when the file's current digest differs from the stored digest.
C1_StalenessContract ==
    /\ ScanReported =>
         \A n \in BaselineFiles :
            /\ n \notin DOMAIN PersistedStore => n \notin outcome.stale
            /\ n \in DOMAIN PersistedStore =>
                 (n \in outcome.stale <=>
                    PersistedStore[n].hash # calculate_file_hash(baseline_dir[n]))
    /\ (outcome.cmd = "add" /\ outcome.status = "ok") =>
         \A n \in outcome.copied :
            ~check_staleness(n, PersistedStore, baseline_dir)

\* C1 witness: a scan that reported one file stale while another file of the
\* baseline directory had no entry in the store.
C1_Witness ==
    /\ ScanReported
    /\ outcome.stale # {}
    /\ \E n \in BaselineFiles : n \notin DOMAIN PersistedStore

\* C2: after `baseline add f`, modifying the live project file f makes the
\* staleness check on the baseline-store path true (review and status report
\* it stale): a tracked file whose live content no longer has the recorded
\* digest is reported stale.
C2_LiveDriftFlagged ==
    ScanReported =>
        \A n \in BaselineFiles \cap Editable :
            (/\ n \in DOMAIN PersistedStore
             /\ PersistedStore[n].hash # calculate_file_hash(live[n]))
                => n \in outcome.stale

\* C3: after a `baseline add`, also one stopped by a validation error, the
\* persisted store holds for every file it copied into the baseline
\* directory the digest of the content copied there.
C3_CopiedIsHashed ==
    outcome.cmd = "add" =>
        \A n \in outcome.copied :
            /\ hashes_file.kind = "json"
            /\ n \in DOMAIN hashes_file.data
            /\ hashes_file.data[n].hash = calculate_file_hash(baseline_dir[n])

\* C4: load_hashes never fails its caller: with the store file missing or
\* corrupt, add, review and status run as with an empty store, and a scan
\* reports nothing stale.
C4_LoadNeverFails ==
    (outcome.cmd \in {"add", "review", "status"} /\ hashes_file.kind # "json") =>
        /\ outcome.status # "UnicodeDecodeError"
        /\ outcome.stale = {}


\* A step of one of the commands that read the store
CommandStep == outcome'.cmd \in {"add", "review", "status"}

\* C23: the store only grows or is overwritten in place: an add replaces
\* the entries of the files it copied and leaves every other entry as it
\* was, and no command removes an entry, so the tracked paths of the
\* persisted store never decrease, also after a tracked file was deleted.
C23_StoreOnlyGrows ==
    [][CommandStep =>
        \A k \in DOMAIN PersistedStore :
            /\ k \in DOMAIN PersistedStore'
            /\ k \notin outcome'.copied => PersistedStore'[k] = PersistedStore[k]]_vars

\* C23 witness: an add succeeded while the store still held the entry of a
\* file that is gone from the baseline directory.
C23_Witness ==
    /\ outcome.cmd = "add"
    /\ outcome.status = "ok"
    /\ \E k \in DOMAIN PersistedStore : k \notin outcome.copied /\ baseline_dir[k] = NoFile

\* C27: review and status are read-only: they leave the hash store and the
\* baseline files as they are, so a scan that follows a scan reports the
\* same files stale, and a baseline file with no entry in the store is
\* never reported stale.
C27_ScansReadOnly ==
    [][outcome'.cmd \in {"review", "status"} =>
        /\ hashes_file' = hashes_file
        /\ baseline_dir' = baseline_dir
        /\ (ScanReported /\ outcome'.status = "ok") => outcome'.stale = outcome.stale
        /\ \A n \in BaselineFiles : n \notin DOMAIN PersistedStore => n \notin outcome'.stale]_vars

\* C27 witness: a scan that followed an edit of a tracked baseline file and
\* reported it stale while the store still holds the digest recorded by add
\* and another baseline file has no entry.
C27_Witness ==
    /\ ScanReported
    /\ \E n \in outcome.stale : PersistedStore[n].hash # calculate_file_hash(baseline_dir[n])
    /\ \E n \in BaselineFiles : n \notin DOMAIN PersistedStore
(***************************************************************************)
(* Claims about the redactor, checked under SpecRedact.                    *)
(***************************************************************************)
\* an occurrence of sk- followed by at least 20 key characters
HasSkToken(t) ==
    \E i \in 1..Len(t) :
        /\ StartsWithAt(t, i, SkPrefix)
        /\ RunLen(t, i + Len(SkPrefix), KeyChars) >= MinSkChars

\* C8: redact_secrets is idempotent: redacting its output again changes
\* nothing.
C8_RedactIdempotent ==
    "again" \in applied => redacted_twice = redacted

\* C9: every sk- token of the input (sk- and at least 20 key characters),
\* whatever precedes or follows it, is replaced by a sentinel, so no such
\* token occurs in the output of redact_secrets.
C9_NoSkTokenSurvives ==
    "redact" \in applied => ~HasSkToken(redacted)

\* The secret a match of a rule's pattern captures
RuleSecret(rule, t, i, m) ==
    CASE rule \in {"sk_eq_dq", "sk_eq_sq"} -> Slice(t, i + 2, i + m - 2)
      [] rule = "sk_eq"    -> Slice(t, i + 1, i + m - 1)
      [] rule = "sk_dq"    -> Slice(t, i + 1, i + m - 2)
      [] rule = "aws"      ->
            Slice(t, i + AwsMatch(t, i).q1, i + m - 1 - AwsMatch(t, i).q3)
      [] rule = "password" ->
            LET kv == KvMatch(t, i, PasswordKeys, TRUE, {"=", ":"})
            IN Slice(t, kv.vstart, kv.vstart + kv.vlen - 1)
      [] rule = "token"    ->
            LET kv == KvMatch(t, i, TokenKeys, TRUE, {"=", ":"})
            IN Slice(t, kv.vstart, kv.vstart + kv.vlen - 1)
      [] rule = "env"      ->
            LET kv == KvMatch(t, i, EnvKeys, FALSE, {"="})
            IN Slice(t, kv.vstart, kv.vstart + kv.vlen - 1)
      [] rule = "hex"      -> Slice(t, i, i + m - 1)

\* The secret values of a text: what the pattern of some redaction rule
\* captures in it (a hex run counts when its entropy passes the threshold)
SecretValues(t) ==
    {RuleSecret(Rules[r], t, i, MatchLen(Rules[r], t, i)) :
        <<r, i>> \in {p \in (1..Len(Rules)) \X (1..Len(t)) :
            /\ MatchLen(Rules[p[1]], t, p[2]) > 0
            /\ Rules[p[1]] = "hex" =>
                 is_high_entropy_token(
                    Slice(t, p[2], p[2] + MatchLen("hex", t, p[2]) - 1))}}

\* C10: the output of summarize_config contains no secret value of its
\* input that matches a redaction rule, also on a line kept verbatim for its
\* bracket and with other secrets on other lines.
C10_SummaryHidesSecrets ==
    "summarize" \in applied =>
        \A v \in SecretValues(text) : ~Contains(summary, v)


\* Step 1 of redact_secrets: the four sk- substitutions
RedactKeys(t) == Sub("sk_dq", Sub("sk_eq", Sub("sk_eq_sq", Sub("sk_eq_dq", t))))

\* The number of occurrences of p in t
Occurrences(t, p) == Cardinality({i \in 1..Len(t) : StartsWithAt(t, i, p)})

\* C18: no rule after step 1 matches or alters a sentinel [REDACTED_KEY]
\* that step 1 produced: the output of redact_secrets holds as many of them
\* as the text holds after step 1.
C18_SentinelSurvives ==
    "redact" \in applied =>
        Occurrences(redacted, REDACTED_KEY) >= Occurrences(RedactKeys(text), REDACTED_KEY)

\* The value the environment-variable rule captures at position i of line
EnvValueAt(line, i) ==
    Bind(KvMatch(line, i, EnvKeys, FALSE, {"="}), LAMBDA m :
        Slice(line, m.vstart, m.vstart + m.vlen - 1))

\* No value the environment-variable rule captures on line is left in out
EnvValuesMasked(line, out) ==
    \A i \in 1..Len(line) :
        KvMatch(line, i, EnvKeys, FALSE, {"="}).len > 0
            => ~Contains(out, EnvValueAt(line, i))

\* Line by line: a line that step 1 leaves without a sentinel has its
\* environment-variable values masked in the line of the output
EnvMaskedPerLine(given, out) ==
    \A k \in 1..Len(given) :
        ~Contains(RedactKeys(given[k]), REDACTED_KEY) =>
            /\ k <= Len(out)
            /\ EnvValuesMasked(given[k], out[k])

\* C19: the environment-variable step is decided per line: an assignment to
\* API_KEY, SECRET, TOKEN, PASSWORD or PASSWD has its value masked on every
\* line that step 1 did not redact, whether or not another line of the text
\* holds the step-1 sentinel.
C19_EnvMaskedOnEveryLine ==
    "redact" \in applied => EnvMaskedPerLine(SplitLines(text), SplitLines(redacted))

(***************************************************************************)
(* Claims about bundle and expand, checked under SpecBundle.               *)
(***************************************************************************)
Markers ==
    <<<<"\n", "#", "#", " ", "A", "r", "c", "h", "i", "t", "e", "c", "t", "u", "r", "e", "\n">>, <<"\n", "#", "#", " ", "A", "P", "I", "s", "\n">>, <<"\n", "#", "#", " ", "C", "o", "n", "f", "i", "g", "u", "r", "a", "t", "i", "o", "n", "\n">>,
      <<"\n", "#", "#", " ", "D", "a", "t", "a", "b", "a", "s", "e", " ", "S", "c", "h", "e", "m", "a", "\n">>, <<"\n", "#", "#", " ", "S", "e", "s", "s", "i", "o", "n", " ", "N", "o", "t", "e", "s", "\n">>,
      <<"\n", "#", "#", " ", "C", "r", "o", "s", "s", "-", "R", "e", "p", "o", " ", "N", "o", "t", "e", "s", "\n">>, <<"\n", "#", "#", " ", "E", "x", "p", "a", "n", "d", "e", "d", " ", "F", "i", "l", "e", "s", "\n">>>>

MarkerCount(doc, k) ==
    Cardinality({p \in 1..Len(doc) : StartsWithAt(doc, p, Markers[k])})

\* The body under heading k: what lies between the line break after the
\* heading and the line break before the next heading
SectionBody(doc, k) ==
    Slice(doc, Find(doc, Markers[k]) + Len(Markers[k]) + 1,
          IF k < Len(Markers) THEN Find(doc, Markers[k + 1]) - 2 ELSE Len(doc))

FixedStructure(doc, sections) ==
    /\ \A k \in 1..Len(Markers) : MarkerCount(doc, k) = 1
    /\ \A k \in 1..(Len(Markers) - 1) : Find(doc, Markers[k]) < Find(doc, Markers[k + 1])
    /\ \A k \in 1..Len(Markers) :
        /\ Strip(SectionBody(doc, k)) # <<>>
        /\ Strip(sections[k]) = <<>> => SectionBody(doc, k) = NONE
        /\ Strip(sections[k]) # <<>> => SectionBody(doc, k) = sections[k]

\* C5: every document the manual bundle writes has the seven headings, once
\* each and in the fixed order, whatever sections are empty; the body of a
\* section that is empty after processing is the literal None, and the body
\* of any other section is its processed text.
C5_FixedSections ==
    [][report'.cmd = "bundle" =>
         FixedStructure(context_file'.text, Sections(context_file))]_vars

\* C5 witness: a bundle with every section empty wrote a document in which
\* every body is None.
C5_Witness ==
    /\ report.cmd = "bundle"
    /\ \A f \in DOMAIN inputs : Strip(inputs[f]) = <<>>
    /\ \A k \in 1..Len(Markers) :
        MarkerCount(context_file.text, k) = 1 /\ SectionBody(context_file.text, k) = NONE

\* The non-blank lines of a text, each stripped
NonBlankLines(t) == StrippedLines(SplitLines(t))

\* The entry's heading line directly followed by the lines of its summary
EntryPresent(section, e) ==
    LET have == NonBlankLines(section)
        want == <<e.heading>> \o NonBlankLines(e.summary)
    IN \E i \in 1..(Len(have) - Len(want) + 1) :
        SubSeq(have, i, i + Len(want) - 1) = want

\* C6: every entry expand appended since the last bundle (the ### heading
\* followed by its summary) is present in the Expanded Files section of the
\* document the next bundle writes.
C6_ExpansionsSurvive ==
    [][report'.cmd = "bundle" =>
         \A k \in 1..Len(pending) :
            EntryPresent(_read_expanded_section(context_file'), pending[k])]_vars

\* C7: when the token count of the assembled document exceeds max_tokens,
\* bundle reports the overage and writes the whole document: the file holds
\* the assembled content, which is over the budget, and it is the document
\* written under any other budget.
C7_OverBudgetStillWritten ==
    [][(report'.cmd = "bundle" /\ report'.over) =>
         /\ context_file'.exists
         /\ context_file'.text = Content(context_file)
         /\ count_tokens(context_file'.text) = report'.tokens
         /\ count_tokens(context_file'.text) > report'.max_tokens]_vars

\* C7 witness: a bundle reported the overage and the file it wrote holds
\* more tokens than the budget.
C7_Witness ==
    /\ report.cmd = "bundle"
    /\ report.over
    /\ report.max_tokens = SmallBudget
    /\ count_tokens(context_file.text) > SmallBudget

\* C13: an input error on one file of an expand batch (disallowed extension,
\* oversized file, path outside the project root) aborts only that file:
\* after the invocation every valid file of the batch, before or after the
\* failing one, has its entry in the Expanded Files section.
C13_BadFileAbortsOnlyItself ==
    [][\A k \in 1..MaxExpand : \A files \in ExpandBatches(k) :
         expand(files) =>
            \A i \in 1..k :
                ExpandValidation(files[i]) = "none" =>
                    /\ context_file'.exists
                    /\ EntryPresent(_read_expanded_section(context_file'),
                                    EntryOf[files[i]])]_vars

\* The placeholder None is a line of the text next to other non-blank lines
NoneBesideContent(t) ==
    /\ \E i \in 1..Len(NonBlankLines(t)) : NonBlankLines(t)[i] = NONE
    /\ NonBlankLines(t) # <<NONE>>

\* C24: in every document that bundle and expand can produce, the
\* placeholder line None is part of a section body only when the section has
\* no other content; after bundle, expand, bundle the Expanded Files section
\* holds the entry without a leading None.
C24_NoneOnlyWhenEmpty ==
    context_file.exists =>
        \A k \in 1..Len(Markers) : ~NoneBesideContent(SectionBody(context_file.text, k))

\* C25: bundle is idempotent: a bundle that directly follows a bundle, with
\* the baseline files and the notes unchanged, writes the document that is
\* already there.
C25_BundleIdempotent ==
    [][(report.cmd = "bundle" /\ report'.cmd = "bundle")
          => context_file'.text = context_file.text]_vars

\* C26: expand is all-or-nothing: when a file of the invocation fails its
\* validation, whatever files came before it, the context file is left
\* exactly as it was before the command.
C26_ExpandAllOrNothing ==
    [][\A k \in 1..MaxExpand : \A files \in ExpandBatches(k) :
         ((\E i \in 1..k : ExpandValidation(files[i]) # "none") /\ expand(files))
            => context_file' = context_file]_vars

\* C26 witness: an expand failed on a file while the context file holds the
\* entries of an earlier expand.
C26_Witness ==
    /\ report.cmd = "expand"
    /\ report.status = "BadParameter"
    /\ context_file.exists
    /\ pending # <<>>
    /\ \A k \in 1..Len(pending) : EntryPresent(_read_expanded_section(context_file), pending[k])

(***************************************************************************)
(* Claims about the normalizer, checked under SpecNormalize.               *)
(***************************************************************************)
\* The position of the first separator (= or :) of a line, 0 if it has none
FirstSeparator(line) == FirstOf({k \in 1..Len(line) : line[k] \in {"=", ":"}}, 0)

\* What one input line becomes on its own: nothing for a blank or comment
\* line, itself if it has a bracket, key: [configured] with the key before
\* its first separator if it has one, else nothing
LineSummary(line) ==
    Bind(Strip(line), LAMBDA stripped :
        IF stripped = <<>> \/ Head(stripped) = "#" THEN <<>>
        ELSE IF \E k \in 1..Len(stripped) : stripped[k] \in {"{", "}", "[", "]"}
        THEN <<line>>
        ELSE IF FirstSeparator(stripped) > 0
        THEN <<Strip(Slice(stripped, 1, FirstSeparator(stripped) - 1)) \o CONFIGURED>>
        ELSE <<>>)

RECURSIVE LineSummaries(_)
LineSummaries(lines) ==
    IF lines = <<>> THEN <<>>
    ELSE LineSummary(Head(lines)) \o LineSummaries(Tail(lines))

\* C11: summarize_config maps each input line on its own: a blank or comment
\* line is dropped, a line with a bracket is kept verbatim, a key = value or
\* key: value line becomes key: [configured] with the key that stands before
\* its first separator, and any other line is dropped.
C11_LinesSummarizedIndependently ==
    normalized.op = "summarize_config" =>
        normalized.out = JoinLines(LineSummaries(SplitLines(source_text)))

\* line is blank: nothing is left of it once stripped
IsBlank(line) == Strip(line) = <<>>

\* The index of the first line of lines equal to line, 0 if there is none
FirstIndex(lines, line) == FirstOf({k \in 1..Len(lines) : lines[k] = line}, 0)

\* No non-blank line occurs twice
NoRepeats(lines) ==
    \A i, j \in 1..Len(lines) : (i < j /\ ~IsBlank(lines[i])) => lines[i] # lines[j]

\* The non-blank lines of kept are lines of given, in the order in which
\* they first occur there
InFirstOccurrenceOrder(given, kept) ==
    /\ \A i \in 1..Len(kept) : ~IsBlank(kept[i]) => FirstIndex(given, kept[i]) > 0
    /\ \A i, j \in 1..Len(kept) :
        (i < j /\ ~IsBlank(kept[i]) /\ ~IsBlank(kept[j]))
            => FirstIndex(given, kept[i]) < FirstIndex(given, kept[j])

\* C12: the output of deduplicate_content holds no two identical non-blank
\* lines, and the non-blank lines it keeps stand in the order of their first
\* occurrence in the input.
C12_NoRepeatsInOrder ==
    normalized.op = "deduplicate_content" =>
        /\ NoRepeats(SplitLines(normalized.out))
        /\ InFirstOccurrenceOrder(SplitLines(source_text), SplitLines(normalized.out))

\* C12 witness: a line that occurs twice around another one was given, and
\* the output keeps its first occurrence and the other line after it.
C12_Witness ==
    /\ normalized.op = "deduplicate_content"
    /\ source_text = <<"x", "\n", "y", "\n", "x">>
    /\ normalized.out = <<"x", "\n", "y">>

\* No line ends in whitespace
NoTrailingWhitespace(lines) ==
    \A i \in 1..Len(lines) :
        lines[i] = <<>> \/ lines[i][Len(lines[i])] \notin Whitespace

\* No blank line follows a blank line
NoBlankRun(lines) ==
    \A i \in 1..(Len(lines) - 1) : ~(IsBlank(lines[i]) /\ IsBlank(lines[i + 1]))

\* The non-blank lines, each right-trimmed, in their order
TrimmedNonBlank(lines) ==
    Bind(SelectSeq(lines, LAMBDA l : ~IsBlank(l)), LAMBDA kept :
        [k \in 1..Len(kept) |-> RStrip(kept[k])])

\* C16: the output of compress_whitespace has no line with trailing
\* whitespace and no two consecutive blank lines, its non-blank lines are the
\* right-trimmed non-blank lines of the input in the same order, and
\* applying the transform to its output returns that output.
C16_WhitespaceCompressed ==
    /\ normalized.op \in {"compress_whitespace", "compress_whitespace_twice"} =>
        /\ NoTrailingWhitespace(SplitLines(normalized.out))
        /\ NoBlankRun(SplitLines(normalized.out))
        /\ SelectSeq(SplitLines(normalized.out), LAMBDA l : ~IsBlank(l))
             = TrimmedNonBlank(SplitLines(source_text))
    /\ normalized.op = "compress_whitespace_twice" => normalized.again = normalized.out

\* C16 witness: a line with trailing spaces followed by two blank lines was
\* given; the output is the trimmed line and one blank line, and the second
\* application returned it unchanged.
C16_Witness ==
    /\ normalized.op = "compress_whitespace_twice"
    /\ source_text = <<"x", " ", " ", "\n", "\n", " ", " ">>
    /\ normalized.out = <<"x", "\n">>
    /\ normalized.again = normalized.out

\* The docstring spans of a text in a language: triple-quoted strings for
\* Python, /** */ blocks for the C-like languages
DocSpans(language, code) == FindBlocks(language, code, 1)

\* C17: compress_code returns the docstring spans of its input and none of
\* the code around them, and for every language it is called with it returns
\* the placeholder (no docstrings) when the input has no such span.
C17_DocstringsOrPlaceholder ==
    normalized.op = "compress_code" =>
        IF DocSpans(normalized.language, source_text) = <<>>
        THEN normalized.out = NO_DOCSTRINGS
        ELSE /\ ~Contains(normalized.out, <<"x", " ", "=", " ", "1">>)
             /\ \A k \in 1..Len(DocSpans(normalized.language, source_text)) :
                    Contains(normalized.out,
                             Strip(DocSpans(normalized.language, source_text)[k]))

\* Every non-blank line of given is a line of kept exactly once
EachKeptOnce(given, kept) ==
    \A k \in 1..Len(given) :
        ~IsBlank(given[k]) =>
            Cardinality({j \in 1..Len(kept) : kept[j] = given[k]}) = 1

\* C20: deduplicate_content removes a non-blank line only when the very same
\* line came earlier: every distinct non-blank input line, lines that differ
\* in their indentation included, is in the output exactly once, and no
\* blank line follows a blank line there.
C20_OnlyExactDuplicatesRemoved ==
    normalized.op = "deduplicate_content" =>
        /\ EachKeptOnce(SplitLines(source_text), SplitLines(normalized.out))
        /\ NoBlankRun(SplitLines(normalized.out))

\* How many times the quote style q occurs on the line from position i on
RECURSIVE QuoteCount(_, _, _)
QuoteCount(line, i, q) ==
    IF i > Len(line) THEN 0
    ELSE IF StartsWithAt(line, i, q) THEN 1 + QuoteCount(line, i + Len(q), q)
    ELSE QuoteCount(line, i + 1, q)

\* The triple-quote style that occurs first on the line
FirstQuote(line) ==
    IF FirstOf({i \in 1..Len(line) : StartsWithAt(line, i, TripleDouble)}, Len(line) + 1)
         <= FirstOf({i \in 1..Len(line) : StartsWithAt(line, i, TripleSingle)}, Len(line) + 1)
    THEN TripleDouble ELSE TripleSingle

\* The two-state scanner: open is the style of the open docstring, NoQuote
\* in code.  A docstring that opens and closes on one line leaves the
\* scanner in code; lines of a docstring are kept; a code line loses its
\* text from the first # on and is dropped when nothing else is left.
RECURSIVE ScannerLoop(_, _, _)
ScannerLoop(lines, open, result) ==
    IF lines = <<>> THEN result
    ELSE Bind(Head(lines), LAMBDA line :
        IF open # NoQuote
        THEN ScannerLoop(Tail(lines),
                         IF QuoteCount(line, 1, open) % 2 = 1 THEN NoQuote ELSE open,
                         Append(result, line))
        ELSE IF Contains(line, TripleDouble) \/ Contains(line, TripleSingle)
        THEN ScannerLoop(Tail(lines),
                         IF QuoteCount(line, 1, FirstQuote(line)) % 2 = 1
                         THEN FirstQuote(line) ELSE NoQuote,
                         Append(result, line))
        ELSE IF Contains(line, <<"#">>)
        THEN ScannerLoop(Tail(lines), open,
                         IF RStrip(SplitOn(line, "#")[1]) # <<>>
                         THEN Append(result, RStrip(SplitOn(line, "#")[1])) ELSE result)
        ELSE ScannerLoop(Tail(lines), open, Append(result, line)))

\* C21: strip_comments for Python is the two-state scanner: a docstring is
\* closed by its own quote style, also on the line that opened it, docstring
\* lines are emitted unchanged, and outside docstrings the text from the
\* first # on is removed, so a comment after a complete docstring never
\* survives.
C21_TwoStateScanner ==
    (normalized.op = "strip_comments" /\ normalized.language = "python")
        => normalized.out = JoinLines(ScannerLoop(SplitLines(source_text), NoQuote, <<>>))

\* The distinct documentation blocks of a C-like source
DocBlocks(code) ==
    {b \in {FindBlocks("javascript", code, 1)[k] : k \in 1..Len(FindBlocks("javascript", code, 1))} :
        Strip(b) # <<>>}

\* C22: strip_comments for a C-like language emits each distinct /** */
\* block exactly once and keeps the code that is not a comment: a source
\* with no comment at all comes back as it was.
C22_CodeKeptDocsOnce ==
    (normalized.op = "strip_comments" /\ normalized.language = "javascript")
        => /\ \A b \in DocBlocks(source_text) : Occurrences(normalized.out, b) = 1
           /\ ~Contains(source_text, <<"/">>) => Strip(normalized.out) = Strip(source_text)

(***************************************************************************)
(* Claims about compress, checked under SpecCompress.                      *)
(***************************************************************************)
\* C14: a call of the backend that runs longer than the 120-second ceiling
\* is a failed call, on the SIGALRM path and on the watcher-thread path:
\* compress returns (None, None, None) and not the backend's result,
\* compress_cmd writes no file for that input, leaves the directory as it
\* is, reports the failure and stays in its loop with the remaining files.
C14_TimeoutFailsOnlyThatFile ==
    [][(/\ call.state = "running"
        /\ call'.state = "returned"
        /\ call.duration > timeout_seconds) =>
         /\ call'.returned = FailureTriple
         /\ compress_dir' = compress_dir
         /\ job'.reported[call.file] = "failed"
         /\ job'.pc = "loop"
         /\ job'.todo = job.todo \ {call.file}]_vars

\* C14 witness: on the watcher-thread path the backend ran past the ceiling
\* to its end and returned a complete result; compress returned the failure
\* triple, no compressed_ file exists for that input, the file an earlier
\* iteration wrote is there, and files remain to be visited.
C14_Witness ==
    /\ call.state = "returned"
    /\ ~backend.sigalrm
    /\ call.duration > timeout_seconds
    /\ call.elapsed = call.duration
    /\ call.timed_out
    /\ call.result = "complete"
    /\ call.returned = FailureTriple
    /\ CompressedName(call.file) \notin DOMAIN compress_dir
    /\ \E n \in DOMAIN job.reported :
        job.reported[n] = "compressed" /\ CompressedName(n) \in DOMAIN compress_dir
    /\ job.todo # {}

\* C15: with the backend not installed nothing escapes compress_cmd: the
\* backend is never called, every compress call returns the failure triple,
\* no step writes to the directory, and when the command ends after valid
\* arguments it has visited every file of the directory and reported a
\* failure for each.
C15_MissingBackendOnlyReported ==
    [][backend.installed = "missing" =>
         /\ compress_dir' = compress_dir
         /\ call'.state # "running"
         /\ call'.state = "returned" => call'.returned = FailureTriple
         /\ job'.final # "raised"
         /\ (job'.pc = "done" /\ job'.final # "error: rate") =>
              /\ job'.baseline_files = DOMAIN compress_dir
              /\ \A n \in DOMAIN compress_dir :
                    compress_dir[n].kind # "dir" =>
                        /\ n \in DOMAIN job'.reported
                        /\ job'.reported[n] \in {"failed", "error"}]_vars

\* C15 witness: with the backend missing the command has ended, at least two
\* files were visited, and each has a failure reported.
C15_Witness ==
    /\ backend.installed = "missing"
    /\ job.pc = "done"
    /\ job.final = "error: none compressed"
    /\ Cardinality(DOMAIN job.reported) >= 2
    /\ \A n \in DOMAIN job.reported : job.reported[n] \in {"failed", "error"}
    /\ \E n \in DOMAIN job.reported : job.reported[n] = "failed"

\* C28: the files compress takes as input are stable under its own output:
\* a compressed_ file written by a run is never an input of a run, so no
\* file with the prefix twice is ever written and the directory stays
\* bounded.
C28_OutputNeverInput ==
    /\ \A n \in job.baseline_files : n[1] = 0
    /\ \A n \in DOMAIN compress_dir : n[1] <= 1
(***************************************************************************)
(* Claims about the shared wrapper, checked under SpecWrapper.             *)
(***************************************************************************)
\* C29: for one wrapper shared by concurrent callers the backend is
\* constructed successfully at most once: under every interleaving every
\* caller that obtained a compressor obtained the one instance the wrapper
\* holds, and while no construction has succeeded, failed ones included, the
\* wrapper is uninitialized and its lock is left free for the next call.
C29_ConstructedAtMostOnce ==
    /\ shared_wrapper.built <= 1
    /\ shared_wrapper.compressor = shared_wrapper.built
    /\ \A t \in Threads :
        /\ callers[t].compressor # NotBuilt => callers[t].compressor = shared_wrapper.compressor
        /\ callers[t].pc \in {"idle", "returned"} => shared_wrapper.lock # t

\* C29 witness: a construction failed, a later call constructed the backend,
\* and both threads have obtained that instance.
C29_Witness ==
    /\ shared_wrapper.failed >= 1
    /\ shared_wrapper.built = 1
    /\ \A t \in Threads : callers[t].compressor = shared_wrapper.compressor

\* C30: on the SIGALRM path every exit from the timeout context cancels the
\* pending alarm and restores the handler that was installed before the
\* call: once compress has returned in the main thread no alarm is pending
\* and the handler is the one from before; after each file of compress_src
\* no alarm is pending.
C30_AlarmCancelledHandlerRestored ==
    /\ callers["main"].pc = "returned" =>
        /\ ~sigalrm_state.alarm
        /\ sigalrm_state.handler = sigalrm_state.before
    /\ callers["main"].pc = "src_done" => ~sigalrm_state.alarm

====
